---- MODULE Spec2Model ----
(***************************************************************************)
(* The trading decision engine of golden-burger: the Trade Store           *)
(* (db/repository.py, db/models.py), the Trader (strategy/trader.py of the *)
(* three variants golden-apple, golden-banana, golden-cherry), the Market  *)
(* Scanner and the cycle orchestrator (bot.py).                            *)
(*                                                                         *)
(* Units.  Prices and probabilities are integers in thousandths (0.865 is  *)
(* 865), percentages likewise (-0.10 is -100), amounts are whole USDC and  *)
(* time is in hours.  Share counts and P&L are exact rationals [n, d];     *)
(* Python's binary floating point rounding is not modelled.                *)
(*                                                                         *)
(* Display-only columns of Trade (market_slug, question, outcome,          *)
(* liquidity_at_buy, created_at, buy_timestamp, buy_probability,           *)
(* sell_probability, momentum readings) are never read by the engine and   *)
(* are left out of the Trade record.                                       *)
(***************************************************************************)
EXTENDS Integers, Sequences, FiniteSets, TLC

VARIABLES
    config,      \* TradingConfig of the run (fixed per behaviour)
    trades,      \* table trades: sequence of Trade rows, id = position
    skipped,     \* table skipped_markets: sequence of SkippedMarket rows
    snapshots,   \* table market_snapshots: sequence of MarketSnapshot rows
    orders,      \* the limit orders the exchange has accepted so far
    now,         \* wall clock, hours
    pc,          \* position of run_cycle: idle, snapshots, sell, buy
    holdings,    \* run_cycle: ids of the holdings still to be evaluated
    candidates,  \* run_cycle: buy candidates still to be attempted
    cycle,       \* run_cycle bookkeeping of the current invocation
    last         \* the most recent call: operation, argument, result

vars == <<config, trades, skipped, snapshots, orders, now, pc, holdings,
          candidates, cycle, last>>

----------------------------------------------------------------------------
(* Bounds of the model *)

NumMarkets == 2
MaxSnapshots == 1
MaxSeries == 6
MaxStored == 3

Markets == 1..NumMarkets

(* Program constants.  The thresholds and the liquidity floor are the      *)
(* defaults of golden-apple; every variant is run with them.               *)

MIN_ORDER_SIZE == 5
DEFAULT_TICK_SIZE == 10
BuyThreshold == 800
SellThreshold == 900
BananaTakeProfit == 70
BananaStopLoss == -100
CherryTakeProfit == 150
CherryStopLoss == -80
TrailingPercent == 50
EntryHoursMax == 24
EntryHoursMin == 4
ExitHours == 4
ShortWindow == 3
LongWindow == 72
GoldenCrossThreshold == 20
DeadCrossThreshold == -20
RetentionDays == 7
MinLiquidity == 100000

(* Inputs the environment can produce *)

\* Market 1 is quoted at every price of interest: no quote, below the range,
\* its two ends, inside it off the tick, above it.  The other markets are
\* quoted at a price that buys and a price that sells.
Prices == {0, 700, 800, 865, 900, 950}
PricesOf(m) == IF m = 1 THEN Prices ELSE {BuyThreshold, 950}
Instants == {0, 26, 28}
EndDates == {30}
LowLiquidity == MinLiquidity \div 2
HighLiquidity == MinLiquidity * 2

----------------------------------------------------------------------------
(* Optional values: None is <<>>, a present value x is <<x>>. *)

None == <<>>
Some(x) == <<x>>
IsSome(o) == o # <<>>
Val(o) == o[1]

(* Exact rationals in lowest terms with a positive denominator. *)

Abs(x) == IF x < 0 THEN -x ELSE x

RECURSIVE GCD(_, _)
GCD(a, b) == IF b = 0 THEN a ELSE GCD(b, a % b)

Rat(n, d) ==
    LET g == GCD(Abs(n), d)
    IN  [n |-> n \div g, d |-> d \div g]
RatLess(a, b) == a.n * b.d < b.n * a.d
RatSub(a, b) == Rat(a.n * b.d - b.n * a.d, a.d * b.d)
RatScale(k, a) == Rat(k * a.n, a.d)

----------------------------------------------------------------------------
(* db/models.py *)

TradeStatus == {"PENDING_BUY", "HOLDING", "PENDING_SELL", "COMPLETED", "SKIPPED"}

NonTerminal == {"PENDING_BUY", "HOLDING", "PENDING_SELL"}

\* A Trade row as execute_buy fills it; the sell columns are nullable and
\* start empty.
Trade(id, f) ==
    [id |-> id,
     condition_id |-> f.condition_id,
     token_id |-> f.token_id,
     status |-> f.status,
     buy_price |-> f.buy_price,
     buy_amount |-> f.buy_amount,
     buy_shares |-> f.buy_shares,
     buy_order_id |-> f.buy_order_id,
     entry_reason |-> f.entry_reason,
     max_price |-> f.max_price,
     market_end_date |-> f.market_end_date,
     hours_until_resolution_at_buy |-> f.hours_until_resolution_at_buy,
     sell_price |-> None,
     sell_shares |-> None,
     sell_order_id |-> None,
     sell_timestamp |-> None,
     realized_pnl |-> None,
     exit_reason |-> None,
     updated_at |-> now]

SkippedMarket(cid, reason) == [condition_id |-> cid, reason |-> reason]

MarketSnapshot(cid, probability) ==
    [condition_id |-> cid, probability |-> probability, timestamp |-> now]

----------------------------------------------------------------------------
(* db/repository.py: TradeRepository.  Queries are operators over the      *)
(* tables; a mutation returns [ok, error, table].                          *)

Ids(ts) == 1..Len(ts)

get_by_id(ts, trade_id) ==
    IF trade_id \in Ids(ts) THEN Some(ts[trade_id]) ELSE None

get_by_condition_id(ts, cid) ==
    LET hit == {i \in Ids(ts) : ts[i].condition_id = cid}
    IN  IF hit = {} THEN None
        ELSE Some(ts[CHOOSE i \in hit : \A j \in hit : i <= j])

is_already_traded_skipping_trades(ts, sk, cid) ==
    \E i \in 1..Len(sk) : sk[i].condition_id = cid

is_already_traded_ignoring_skipped(ts, sk, cid) ==
    IsSome(get_by_condition_id(ts, cid))

is_already_traded(ts, sk, cid) ==
    IF IsSome(get_by_condition_id(ts, cid)) THEN TRUE
    ELSE \E i \in 1..Len(sk) : sk[i].condition_id = cid

\* Column condition_id of trades is unique: the commit of a second row for
\* the same market raises IntegrityError and inserts nothing.
create_trade_no_unique(ts, f) ==
    [ok |-> TRUE, error |-> "", table |-> Append(ts, Trade(Len(ts) + 1, f))]

create_trade(ts, f) ==
    IF \E i \in Ids(ts) : ts[i].condition_id = f.condition_id
    THEN [ok |-> FALSE, error |-> "IntegrityError", table |-> ts]
    ELSE [ok |-> TRUE, error |-> "", table |-> Append(ts, Trade(Len(ts) + 1, f))]

SetFields_keeps_updated_at(row, kwargs) == [k \in DOMAIN row |-> IF k \in DOMAIN kwargs THEN kwargs[k] ELSE row[k]]

\* kwargs is a record of column values; each named column is overwritten
\* and updated_at is bumped.
SetFields(row, kwargs) ==
    [k \in DOMAIN row |->
        IF k = "updated_at" THEN now
        ELSE IF k \in DOMAIN kwargs THEN kwargs[k]
        ELSE row[k]]

update_trade(ts, trade_id, kwargs) ==
    IF trade_id \notin Ids(ts)
    THEN [ok |-> FALSE, error |-> "ValueError", table |-> ts]
    ELSE [ok |-> TRUE, error |-> "",
          table |-> [ts EXCEPT ![trade_id] = SetFields(ts[trade_id], kwargs)]]

HoldingIds_any_status(ts) == Ids(ts)

HoldingIds(ts) == {i \in Ids(ts) : ts[i].status = "HOLDING"}

RECURSIVE SetToSeq(_)
SetToSeq(S) ==
    IF S = {} THEN <<>>
    ELSE LET x == CHOOSE y \in S : \A z \in S : y <= z
         IN  <<x>> \o SetToSeq(S \ {x})

get_holding_trades_none(ts) == <<>>

\* The rows in HOLDING, in id order.
get_holding_trades(ts) == SetToSeq(HoldingIds(ts))

get_stats_every_row_holding(ts, sk) ==
    [total_trades |-> Len(ts), holding |-> Len(ts), completed |-> 0,
     skipped |-> Len(sk), total_pnl |-> Rat(0, 1)]

\* TradeRepository.get_stats(): counts of all rows, of the rows in HOLDING
\* and in COMPLETED, of the skipped markets, and the sum of the realized_pnl
\* values that are not null, rounded to four decimals (round() sends a tie
\* to the even digit).  Money is in thousandths, so the fourth decimal is a
\* tenth of the unit.
get_stats(ts, sk) ==
    LET RECURSIVE Sum(_)
        Sum(i) ==
            IF i = 0 THEN Rat(0, 1)
            ELSE IF ts[i].realized_pnl = None THEN Sum(i - 1)
            ELSE Rat(Sum(i - 1).n * Val(ts[i].realized_pnl).d
                         + Val(ts[i].realized_pnl).n * Sum(i - 1).d,
                     Sum(i - 1).d * Val(ts[i].realized_pnl).d)
        total_pnl == Sum(Len(ts))
        q == (10 * total_pnl.n) \div total_pnl.d
        r == (10 * total_pnl.n) % total_pnl.d
        up == \/ 2 * r > total_pnl.d
              \/ 2 * r = total_pnl.d /\ q % 2 = 1
    IN  [total_trades |-> Len(ts),
         holding |-> Cardinality({i \in Ids(ts) : ts[i].status = "HOLDING"}),
         completed |-> Cardinality({i \in Ids(ts) : ts[i].status = "COMPLETED"}),
         skipped |-> Len(sk),
         total_pnl |-> Rat(IF up THEN q + 1 ELSE q, 10)]

get_position_count_zero(ts) == 0

get_position_count(ts) == Cardinality(HoldingIds(ts))

\* Column condition_id of skipped_markets is unique as well.
mark_as_skipped(sk, cid, reason) ==
    IF \E i \in 1..Len(sk) : sk[i].condition_id = cid
    THEN [ok |-> FALSE, error |-> "IntegrityError", table |-> sk]
    ELSE [ok |-> TRUE, error |-> "", table |-> Append(sk, SkippedMarket(cid, reason))]

save_snapshot(sn, cid, probability) == Append(sn, MarketSnapshot(cid, probability))

----------------------------------------------------------------------------
(* api/clob_client.py: ClobClientWrapper *)

\* round(price / tick) * tick; Python's round() sends a tie to the even tick.
_round_to_tick(price) ==
    LET q == price \div DEFAULT_TICK_SIZE
        r == price % DEFAULT_TICK_SIZE
        up == \/ 2 * r > DEFAULT_TICK_SIZE
              \/ 2 * r = DEFAULT_TICK_SIZE /\ q % 2 = 1
    IN  (IF up THEN q + 1 ELSE q) * DEFAULT_TICK_SIZE

\* What get_midpoint can give back after its retries: a price, or "error"
\* when the last attempt raised.  A missing quote comes back as price 0.
MidpointResults(token_id) == {Some(p) : p \in PricesOf(token_id[1])} \cup {None}

\* The order as the exchange client submits it.
Order(token_id, price, size, side) ==
    [token_id |-> token_id, price |-> _round_to_tick(price), size |-> size,
     side |-> side]

\* An order together with the response to it.
Placed(order, result) == [order |-> order, result |-> result]

OrderId(side, token_id) == <<side, token_id>>

\* The result dictionary of place_limit_order: accepted with success and an
\* order id, accepted with an order id and no success key, or not accepted
\* (rejected by the exchange, or the client raised and the wrapper turned it
\* into success = False).
OrderResults(side, token_id) ==
    {[success |-> TRUE, orderID |-> Some(OrderId(side, token_id))],
     [success |-> FALSE, orderID |-> Some(OrderId(side, token_id))],
     [success |-> FALSE, orderID |-> None]}

----------------------------------------------------------------------------
(* strategy/filters.py *)

passes_liquidity_filter(market, min_liquidity) == market.liquidity >= min_liquidity

get_high_probability_outcome_second_on_tie(market) ==
    IF Len(market.outcomePrices) < 2 THEN None
    ELSE IF market.outcomePrices[1] > market.outcomePrices[2]
         THEN Some([probability |-> market.outcomePrices[1],
                    token_id |-> IF Len(market.clobTokenIds) > 0
                                 THEN Some(market.clobTokenIds[1]) ELSE None,
                    token_index |-> 0])
         ELSE Some([probability |-> market.outcomePrices[2],
                    token_id |-> IF Len(market.clobTokenIds) > 1
                                 THEN Some(market.clobTokenIds[2]) ELSE None,
                    token_index |-> 1])

\* The higher of the two outcome prices, the first outcome on a tie.
get_high_probability_outcome(market) ==
    IF Len(market.outcomePrices) < 2 THEN None
    ELSE IF market.outcomePrices[1] >= market.outcomePrices[2]
         THEN Some([probability |-> market.outcomePrices[1],
                    token_id |-> IF Len(market.clobTokenIds) > 0
                                 THEN Some(market.clobTokenIds[1]) ELSE None,
                    token_index |-> 0])
         ELSE Some([probability |-> market.outcomePrices[2],
                    token_id |-> IF Len(market.clobTokenIds) > 1
                                 THEN Some(market.clobTokenIds[2]) ELSE None,
                    token_index |-> 1])

is_valid_buy_candidate(probability, buy_threshold, sell_threshold) ==
    buy_threshold <= probability /\ probability <= sell_threshold

----------------------------------------------------------------------------
(* strategy/momentum.py: MomentumCalculator.  A momentum is None or a       *)
(* rational in thousandths per snapshot.                                    *)

SubSeqLast(s, k) == SubSeq(s, Len(s) - k + 1, Len(s))

calculate_momentum_per_interval(snaps) ==
    IF Len(snaps) < 2 THEN None
    ELSE Some(Rat(snaps[Len(snaps)].probability - snaps[1].probability, Len(snaps) - 1))

calculate_momentum(snaps) ==
    IF Len(snaps) < 2 THEN None
    ELSE Some(Rat(snaps[Len(snaps)].probability - snaps[1].probability, Len(snaps)))

get_short_momentum(snaps, mc) ==
    IF Len(snaps) < mc.short_window THEN None
    ELSE calculate_momentum(SubSeqLast(snaps, mc.short_window))

get_long_momentum_fallback_at_short_window(snaps, mc) ==
    IF Len(snaps) < mc.long_window
    THEN IF Len(snaps) >= mc.short_window THEN calculate_momentum(snaps) ELSE None
    ELSE calculate_momentum(SubSeqLast(snaps, mc.long_window))

get_long_momentum(snaps, mc) ==
    IF Len(snaps) < mc.long_window
    THEN IF Len(snaps) >= mc.short_window * 2 THEN calculate_momentum(snaps) ELSE None
    ELSE calculate_momentum(SubSeqLast(snaps, mc.long_window))

detect_golden_cross(short_momentum, long_momentum, mc) ==
    IF short_momentum = None \/ long_momentum = None THEN FALSE
    ELSE ~RatLess(RatSub(Val(short_momentum), Val(long_momentum)),
                  Rat(mc.golden_cross_threshold, 1))

detect_dead_cross_strict(short_momentum, long_momentum, mc) ==
    IF short_momentum = None \/ long_momentum = None THEN FALSE
    ELSE RatLess(RatSub(Val(short_momentum), Val(long_momentum)),
                 Rat(mc.dead_cross_threshold, 1))

detect_dead_cross(short_momentum, long_momentum, mc) ==
    IF short_momentum = None \/ long_momentum = None THEN FALSE
    ELSE ~RatLess(Rat(mc.dead_cross_threshold, 1),
                  RatSub(Val(short_momentum), Val(long_momentum)))

get_entry_signal_nonnegative_short(snaps, mc) ==
    LET short_mom == get_short_momentum(snaps, mc)
        long_mom == get_long_momentum(snaps, mc)
    IN  IF ~mc.enabled THEN <<TRUE, "momentum_disabled">>
        ELSE IF short_mom = None THEN <<FALSE, "insufficient_short_data">>
        ELSE IF long_mom = None
             THEN IF Val(short_mom).n >= 0 THEN <<TRUE, "short_momentum_positive">>
                  ELSE <<FALSE, "short_momentum_negative">>
        ELSE IF detect_golden_cross(short_mom, long_mom, mc) THEN <<TRUE, "golden_cross">>
        ELSE <<FALSE, "no_signal">>

get_entry_signal(snaps, mc) ==
    LET short_mom == get_short_momentum(snaps, mc)
        long_mom == get_long_momentum(snaps, mc)
    IN  IF ~mc.enabled THEN <<TRUE, "momentum_disabled">>
        ELSE IF short_mom = None THEN <<FALSE, "insufficient_short_data">>
        ELSE IF long_mom = None
             THEN IF Val(short_mom).n > 0 THEN <<TRUE, "short_momentum_positive">>
                  ELSE <<FALSE, "short_momentum_negative">>
        ELSE IF detect_golden_cross(short_mom, long_mom, mc) THEN <<TRUE, "golden_cross">>
        ELSE <<FALSE, "no_signal">>

\* pnl_percent <= limit, for pnl_percent = (current - entry) / entry and 0
\* when entry = 0; limit is in thousandths.
PnlAtMost(entry_price, current_price, limit) ==
    IF entry_price = 0 THEN 0 <= limit
    ELSE (current_price - entry_price) * 1000 <= limit * entry_price

PnlAtLeast(entry_price, current_price, limit) ==
    IF entry_price = 0 THEN 0 >= limit
    ELSE (current_price - entry_price) * 1000 >= limit * entry_price

get_exit_signal_take_profit_first(snaps, entry_price, current_price, take_profit, stop_loss, mc) ==
    IF PnlAtLeast(entry_price, current_price, take_profit) THEN <<TRUE, "take_profit">>
    ELSE IF PnlAtMost(entry_price, current_price, stop_loss) THEN <<TRUE, "stop_loss">>
    ELSE <<FALSE, "hold">>

get_exit_signal_dead_cross_first(snaps, entry_price, current_price, take_profit, stop_loss, mc) ==
    IF /\ mc.enabled
       /\ detect_dead_cross(get_short_momentum(snaps, mc), get_long_momentum(snaps, mc), mc)
    THEN <<TRUE, "dead_cross">>
    ELSE IF PnlAtMost(entry_price, current_price, stop_loss) THEN <<TRUE, "stop_loss">>
    ELSE IF PnlAtLeast(entry_price, current_price, take_profit) THEN <<TRUE, "take_profit">>
    ELSE <<FALSE, "hold">>

get_exit_signal(snaps, entry_price, current_price, take_profit, stop_loss, mc) ==
    IF PnlAtMost(entry_price, current_price, stop_loss) THEN <<TRUE, "stop_loss">>
    ELSE IF PnlAtLeast(entry_price, current_price, take_profit) THEN <<TRUE, "take_profit">>
    ELSE IF /\ mc.enabled
            /\ get_short_momentum(snaps, mc) # None
            /\ get_long_momentum(snaps, mc) # None
            /\ detect_dead_cross(get_short_momentum(snaps, mc),
                                 get_long_momentum(snaps, mc), mc)
         THEN <<TRUE, "dead_cross">>
    ELSE <<FALSE, "hold">>

----------------------------------------------------------------------------
(* golden-banana db/repository.py: snapshot queries *)

\* The index of the newest row among idx: largest timestamp, the later
\* insert on equal timestamps.
Newest(sn, idx) ==
    CHOOSE i \in idx : \A j \in idx :
        \/ sn[j].timestamp < sn[i].timestamp
        \/ sn[j].timestamp = sn[i].timestamp /\ j <= i

RECURSIVE NewestFirst(_, _, _)
NewestFirst(sn, idx, limit) ==
    IF idx = {} \/ limit = 0 THEN <<>>
    ELSE LET i == Newest(sn, idx)
         IN  <<sn[i]>> \o NewestFirst(sn, idx \ {i}, limit - 1)

Reverse_newest_first(s) == s

Reverse(s) == [i \in 1..Len(s) |-> s[Len(s) + 1 - i]]

\* ORDER BY timestamp DESC LIMIT limit, then reversed: oldest first.
get_snapshots_for_condition(sn, cid, limit) ==
    Reverse(NewestFirst(sn, {i \in 1..Len(sn) : sn[i].condition_id = cid}, limit))

cleanup_old_snapshots_inclusive(sn, days) == SelectSeq(sn, LAMBDA r : r.timestamp > now - days * 24)

\* DELETE WHERE timestamp < now - days
cleanup_old_snapshots(sn, days) ==
    SelectSeq(sn, LAMBDA r : ~(r.timestamp < now - days * 24))

----------------------------------------------------------------------------
(* golden-cherry strategy/scanner.py: time window *)

get_hours_until_resolution(end_date) ==
    IF end_date = None THEN None ELSE Some(Val(end_date) - now)

\* (is_valid, reason, hours_left); the reason keeps its code without the
\* formatted number of hours.
is_valid_time_entry_exclusive_max(end_date, entry_hours_max, entry_hours_min) ==
    LET hours_left == get_hours_until_resolution(end_date)
    IN  IF hours_left = None THEN <<FALSE, "no_end_date", None>>
        ELSE IF Val(hours_left) <= 0 THEN <<FALSE, "already_resolved", hours_left>>
        ELSE IF Val(hours_left) >= entry_hours_max THEN <<FALSE, "too_early", hours_left>>
        ELSE IF Val(hours_left) < entry_hours_min THEN <<FALSE, "too_late", hours_left>>
        ELSE <<TRUE, "time_based", hours_left>>

is_valid_time_entry(end_date, entry_hours_max, entry_hours_min) ==
    LET hours_left == get_hours_until_resolution(end_date)
    IN  IF hours_left = None THEN <<FALSE, "no_end_date", None>>
        ELSE IF Val(hours_left) <= 0 THEN <<FALSE, "already_resolved", hours_left>>
        ELSE IF Val(hours_left) > entry_hours_max THEN <<FALSE, "too_early", hours_left>>
        ELSE IF Val(hours_left) < entry_hours_min THEN <<FALSE, "too_late", hours_left>>
        ELSE <<TRUE, "time_based", hours_left>>

----------------------------------------------------------------------------
(* The configuration of a run (config.py: TradingConfig and its parts). *)

MomentumConfig(enabled) ==
    [enabled |-> enabled, short_window |-> ShortWindow, long_window |-> LongWindow,
     golden_cross_threshold |-> GoldenCrossThreshold,
     dead_cross_threshold |-> DeadCrossThreshold]

TradingConfig(variant, max_positions, buy_amount_usdc, momentum, trailing, time_based) ==
    [variant |-> variant,
     buy_threshold |-> BuyThreshold,
     sell_threshold |-> SellThreshold,
     buy_amount_usdc |-> buy_amount_usdc,
     min_liquidity |-> MinLiquidity,
     max_positions |-> max_positions,
     take_profit_percent |-> IF variant = "cherry" THEN CherryTakeProfit ELSE BananaTakeProfit,
     stop_loss_percent |-> IF variant = "cherry" THEN CherryStopLoss ELSE BananaStopLoss,
     momentum |-> MomentumConfig(momentum),
     trailing_stop |-> [enabled |-> trailing, percent |-> TrailingPercent],
     time_based |-> [enabled |-> time_based, entry_hours_max |-> EntryHoursMax,
                     entry_hours_min |-> EntryHoursMin, exit_hours |-> ExitHours]]

\* (max_positions, buy_amount_usdc): no limit, a limit of one position, and
\* an amount too small for MIN_ORDER_SIZE shares above the buy threshold.
Sizings == {<<-1, 10>>, <<1, 10>>, <<-1, 4>>}

\* The switches a variant does not have are off.
Configs ==
    {TradingConfig("apple", z[1], z[2], FALSE, FALSE, FALSE) : z \in Sizings}
    \cup
    {TradingConfig("banana", z[1], z[2], FALSE, FALSE, FALSE) : z \in Sizings}
    \cup
    {TradingConfig("banana", -1, 10, TRUE, FALSE, FALSE)}
    \cup
    {TradingConfig("cherry", z[1], z[2], FALSE, TRUE, TRUE) : z \in Sizings}
    \cup
    {TradingConfig("cherry", -1, 10, FALSE, tr, ti) : tr \in BOOLEAN, ti \in BOOLEAN}

----------------------------------------------------------------------------
(* api/gamma_client.py: what the market listing can return.  A payload     *)
(* carries the fields the scanner reads; excluded stands for the verdict   *)
(* of is_sports_market on its tags, question and slug.                     *)

Payload(m, excluded, liquidity, prices, tokens, endDate) ==
    [conditionId |-> m, excluded |-> excluded, liquidity |-> liquidity,
     outcomePrices |-> prices, clobTokenIds |-> tokens, endDate |-> endDate]

Tokens(m) == <<<<m, 0>>, <<m, 1>>>>

PayloadsOf(m) ==
    IF m # 1
    THEN {Payload(Some(m), FALSE, HighLiquidity, <<BuyThreshold, 1000 - BuyThreshold>>,
                  Tokens(m), Some(d)) : d \in EndDates}
    ELSE
    {Payload(Some(m), FALSE, HighLiquidity, <<p, 1000 - p>>, Tokens(m), e) :
        p \in {700, 800, 900, 950}, e \in {None} \cup {Some(d) : d \in EndDates}}
    \cup
    {Payload(Some(m), FALSE, HighLiquidity, <<100, 900>>, Tokens(m), Some(d)) : d \in EndDates}
    \cup
    {Payload(Some(m), TRUE, HighLiquidity, <<900, 100>>, Tokens(m), None),
     Payload(Some(m), FALSE, LowLiquidity, <<900, 100>>, Tokens(m), None),
     Payload(Some(m), FALSE, HighLiquidity, <<900, 100>>, <<>>, None),
     Payload(Some(m), FALSE, HighLiquidity, <<>>, Tokens(m), None),
     Payload(None, FALSE, HighLiquidity, <<900, 100>>, Tokens(m), None)}

\* A listing: the payloads of some of the markets, each market at most once,
\* in the order the API returns them.
RECURSIVE Listings(_)
Listings(ms) ==
    {<<>>} \cup
    UNION {{<<x>> \o rest : x \in PayloadsOf(m), rest \in Listings(ms \ {m})} : m \in ms}

get_all_tradable_markets_unfiltered(listing, min_liquidity) == listing

\* get_all_tradable_markets keeps the payloads with enough liquidity when
\* min_liquidity > 0.
get_all_tradable_markets(listing, min_liquidity) ==
    IF min_liquidity > 0
    THEN SelectSeq(listing, LAMBDA x : x.liquidity >= min_liquidity)
    ELSE listing

----------------------------------------------------------------------------
(* strategy/scanner.py: MarketScanner.scan_buy_candidates, one market.     *)
(* The result is [kind, candidate]: "skip" (filtered out), "candidate", or *)
(* "raise" when the scan itself fails on this market.                      *)

Candidate(cid, probability, token_id, entry_reason, end_date, hours_left) ==
    [condition_id |-> cid, probability |-> probability, token_id |-> token_id,
     entry_reason |-> entry_reason, end_date |-> end_date,
     hours_until_resolution |-> hours_left]

Skip == [kind |-> "skip", candidate |-> None]
Found(c) == [kind |-> "candidate", candidate |-> Some(c)]
Raise(error) == [kind |-> error, candidate |-> None]

\* golden-apple: probability filter only; the candidate has no entry_reason.
ScanApple(market, info) ==
    Found(Candidate(Val(market.conditionId), info.probability, Val(info.token_id),
                    None, None, None))

\* golden-banana: the momentum entry signal over the stored snapshots.
ScanBanana(market, info) ==
    LET snaps == get_snapshots_for_condition(snapshots, Val(market.conditionId),
                                             config.momentum.long_window + 10)
        signal == IF config.momentum.enabled
                  THEN get_entry_signal(snaps, config.momentum)
                  ELSE <<TRUE, "momentum_disabled">>
    IN  IF signal[1]
        THEN Found(Candidate(Val(market.conditionId), info.probability,
                             Val(info.token_id), Some(signal[2]), None, None))
        ELSE Skip

\* golden-cherry: the time window.  With the time filter off hours_left is
\* None, and the debug message that formats it with :.1f raises TypeError.
ScanCherry(market, info) ==
    LET timed == is_valid_time_entry(market.endDate, config.time_based.entry_hours_max,
                                     config.time_based.entry_hours_min)
    IN  IF config.time_based.enabled
        THEN IF timed[1]
             THEN Found(Candidate(Val(market.conditionId), info.probability,
                                  Val(info.token_id), Some(timed[2]),
                                  market.endDate, timed[3]))
             ELSE Skip
        ELSE Raise("TypeError")

ScanMarket(market) ==
    LET outcome_info == get_high_probability_outcome(market)
    IN  IF market.conditionId = None THEN Skip
        ELSE IF market.excluded THEN Skip
        ELSE IF ~passes_liquidity_filter(market, config.min_liquidity) THEN Skip
        ELSE IF outcome_info = None THEN Skip
        ELSE IF Val(outcome_info).token_id = None THEN Skip
        ELSE IF ~is_valid_buy_candidate(Val(outcome_info).probability,
                                        config.buy_threshold, config.sell_threshold)
             THEN Skip
        ELSE IF config.variant = "apple" THEN ScanApple(market, Val(outcome_info))
        ELSE IF config.variant = "banana" THEN ScanBanana(market, Val(outcome_info))
        ELSE ScanCherry(market, Val(outcome_info))

\* The loop over the listing: the candidates in listing order, or the first
\* error raised.
RECURSIVE ScanLoop(_)
ScanLoop(markets) ==
    IF markets = <<>> THEN [error |-> "", candidates |-> <<>>]
    ELSE LET r == ScanMarket(Head(markets))
             rest == ScanLoop(Tail(markets))
         IN  IF r.kind \notin {"skip", "candidate"}
             THEN [error |-> r.kind, candidates |-> <<>>]
             ELSE IF rest.error # "" THEN rest
             ELSE IF r.kind = "candidate"
                  THEN [error |-> "", candidates |-> <<Val(r.candidate)>> \o rest.candidates]
                  ELSE rest

scan_buy_candidates(listing) ==
    ScanLoop(get_all_tradable_markets(listing, config.min_liquidity))

\* save_market_snapshots: one snapshot per listed market that has an id, is
\* not excluded and has two outcome prices.
RECURSIVE SaveLoop(_, _)
SaveLoop(markets, sn) ==
    IF markets = <<>> THEN sn
    ELSE LET market == Head(markets)
             outcome_info == get_high_probability_outcome(market)
         IN  IF \/ market.conditionId = None
                \/ market.excluded
                \/ outcome_info = None
             THEN SaveLoop(Tail(markets), sn)
             ELSE SaveLoop(Tail(markets),
                           save_snapshot(sn, Val(market.conditionId),
                                         Val(outcome_info).probability))

save_market_snapshots(listing) ==
    SaveLoop(get_all_tradable_markets(listing, config.min_liquidity), snapshots)

----------------------------------------------------------------------------
(* strategy/trader.py: Trader.  Each call leaves its outcome in last:      *)
(* ret is "None", "id", "True", "False" or "raise"; reason names the       *)
(* branch taken; price is the live price read, order the order submitted   *)
(* with the response to it.                                                *)

Call(op, cid, ret, reason, id, price, order) ==
    [op |-> op, cid |-> cid, ret |-> ret, reason |-> reason, id |-> id,
     price |-> price, order |-> order]

NoCall == Call("none", 0, "None", "", 0, None, None)

\* The live price is over the sell threshold: golden-apple tests >=,
\* golden-banana and golden-cherry test >.
RapidJump_never(current_price) == FALSE

RapidJump_strict(current_price) == current_price > config.sell_threshold

RapidJump(current_price) ==
    IF config.variant = "apple"
    THEN current_price >= config.sell_threshold
    ELSE current_price > config.sell_threshold

\* shares = buy_amount_usdc / price
BuyShares(current_price) == Rat(config.buy_amount_usdc * 1000, current_price)

\* execute_buy: result.get("success") or result.get("orderID")
BuyAccepted_any_response(result) == TRUE

BuyAccepted(result) == result.success \/ IsSome(result.orderID)

\* buy_shares < MIN_ORDER_SIZE
BelowMinOrderSize_never(shares) == FALSE

BelowMinOrderSize(shares) == RatLess(shares, Rat(MIN_ORDER_SIZE, 1))

BuyFields(c, current_price, result) ==
    [condition_id |-> c.condition_id,
     token_id |-> c.token_id,
     status |-> "HOLDING",
     buy_price |-> current_price,
     buy_amount |-> config.buy_amount_usdc,
     buy_shares |-> BuyShares(current_price),
     buy_order_id |-> result.orderID,
     entry_reason |-> IF config.variant = "apple" THEN None
                      ELSE IF c.entry_reason = None THEN Some("unknown")
                      ELSE c.entry_reason,
     max_price |-> IF config.variant = "cherry" THEN Some(current_price) ELSE None,
     market_end_date |-> IF config.variant = "cherry" THEN c.end_date ELSE None,
     hours_until_resolution_at_buy |->
         IF config.variant = "cherry" THEN c.hours_until_resolution ELSE None]

\* The part of execute_buy after the size check: the order and the row.
PlaceBuy(c, current_price) ==
    \E result \in OrderResults("BUY", c.token_id) :
        LET order == Order(c.token_id, current_price, BuyShares(current_price),
                           "BUY")
            made == create_trade(trades, BuyFields(c, current_price, result))
        IN  /\ orders' = IF result.success \/ IsSome(result.orderID)
                          THEN orders \cup {order} ELSE orders
            /\ skipped' = skipped
            /\ IF BuyAccepted(result)
               THEN /\ trades' = made.table
                    /\ last' = IF made.ok
                               THEN Call("execute_buy", c.condition_id, "id", "bought",
                                         Len(made.table), Some(current_price), Some(Placed(order, result)))
                               ELSE Call("execute_buy", c.condition_id, "raise", made.error,
                                         0, Some(current_price), Some(Placed(order, result)))
               ELSE /\ trades' = trades
                    /\ last' = Call("execute_buy", c.condition_id, "None", "order_rejected",
                                    0, Some(current_price), Some(Placed(order, result)))

\* Trader.execute_buy(candidate)
execute_buy(c) ==
    LET cid == c.condition_id
        Quiet(reason, price) ==
            /\ UNCHANGED <<trades, skipped, orders>>
            /\ last' = Call("execute_buy", cid, "None", reason, 0, price, None)
    IN  IF is_already_traded(trades, skipped, cid) THEN Quiet("already_traded", None)
        ELSE IF /\ config.max_positions > 0
                /\ get_position_count(trades) >= config.max_positions
             THEN Quiet("max_positions", None)
        ELSE \E mid \in MidpointResults(c.token_id) :
            IF mid = None THEN Quiet("price_error", None)
            ELSE LET current_price == Val(mid)
                     marked == mark_as_skipped(skipped, cid, "rapid_jump")
                 IN  IF RapidJump(current_price)
                     THEN /\ UNCHANGED <<trades, orders>>
                          /\ skipped' = marked.table
                          /\ last' = IF marked.ok
                                     THEN Call("execute_buy", cid, "None", "rapid_jump",
                                               0, mid, None)
                                     ELSE Call("execute_buy", cid, "raise", marked.error,
                                               0, mid, None)
                     ELSE IF current_price < config.buy_threshold
                          THEN Quiet("below_buy", mid)
                     ELSE IF current_price = 0
                          THEN /\ UNCHANGED <<trades, skipped, orders>>
                               /\ last' = Call("execute_buy", cid, "raise",
                                               "ZeroDivisionError", 0, mid, None)
                     ELSE IF BelowMinOrderSize(BuyShares(current_price))
                          THEN Quiet("min_size", mid)
                     ELSE IF config.variant = "cherry" /\ c.hours_until_resolution = None
                          THEN /\ UNCHANGED <<trades, skipped, orders>>
                               /\ last' = Call("execute_buy", cid, "raise", "TypeError",
                                               0, mid, None)
                     ELSE PlaceBuy(c, current_price)

\* The exit decision of execute_sell, (should_sell, exit_reason).
\* golden-apple: the price reached sell_threshold.
ExitApple(trade, current_price) ==
    IF current_price < config.sell_threshold THEN <<FALSE, "hold">>
    ELSE <<TRUE, "threshold">>

\* golden-banana: threshold, then the momentum exit signal, or the plain
\* stop-loss / take-profit when momentum is off.
ExitBanana(trade, current_price) ==
    IF current_price >= config.sell_threshold THEN <<TRUE, "threshold">>
    ELSE IF config.momentum.enabled
         THEN get_exit_signal(
                  get_snapshots_for_condition(snapshots, trade.condition_id,
                                              config.momentum.long_window + 10),
                  trade.buy_price, current_price, config.take_profit_percent,
                  config.stop_loss_percent, config.momentum)
    ELSE IF trade.buy_price > 0
         THEN IF PnlAtMost(trade.buy_price, current_price, config.stop_loss_percent)
              THEN <<TRUE, "stop_loss">>
              ELSE IF PnlAtLeast(trade.buy_price, current_price,
                                 config.take_profit_percent)
                   THEN <<TRUE, "take_profit">>
              ELSE <<FALSE, "hold">>
    ELSE <<FALSE, "hold">>

\* max_price = trade.max_price or trade.buy_price, raised to the live price
MaxPrice_from_buy_price(trade, current_price) ==
    IF current_price > trade.buy_price THEN current_price ELSE trade.buy_price

MaxPrice(trade, current_price) ==
    LET stored == IF trade.max_price = None \/ trade.max_price = Some(0)
                  THEN trade.buy_price ELSE Val(trade.max_price)
    IN  IF current_price > stored THEN current_price ELSE stored

\* current_price < max_price * (1 - trailing_stop.percent)
TrailingTriggered(max_price, current_price) ==
    current_price * 1000 < max_price * (1000 - config.trailing_stop.percent)

\* golden-cherry: stop-loss, take-profit, trailing stop, then time exit.
ExitCherry_time_exit_in_chain(trade, current_price) ==
    LET max_price == MaxPrice(trade, current_price)
        hours_left == get_hours_until_resolution(trade.market_end_date)
    IN  IF PnlAtMost(trade.buy_price, current_price, config.stop_loss_percent)
        THEN <<TRUE, "stop_loss">>
        ELSE IF PnlAtLeast(trade.buy_price, current_price, config.take_profit_percent)
             THEN <<TRUE, "take_profit">>
        ELSE IF config.trailing_stop.enabled /\ max_price > 0
             THEN IF TrailingTriggered(max_price, current_price)
                  THEN <<TRUE, "trailing_stop">>
                  ELSE <<FALSE, "hold">>
        ELSE IF /\ config.time_based.enabled
                /\ hours_left # None
                /\ Val(hours_left) < config.time_based.exit_hours
             THEN <<TRUE, "time_exit">>
        ELSE <<FALSE, "hold">>

ExitCherry(trade, current_price) ==
    LET max_price == MaxPrice(trade, current_price)
        hours_left == get_hours_until_resolution(trade.market_end_date)
        by_price ==
            IF PnlAtMost(trade.buy_price, current_price, config.stop_loss_percent)
            THEN <<TRUE, "stop_loss">>
            ELSE IF PnlAtLeast(trade.buy_price, current_price,
                               config.take_profit_percent)
                 THEN <<TRUE, "take_profit">>
            ELSE IF config.trailing_stop.enabled /\ max_price > 0
                 THEN IF TrailingTriggered(max_price, current_price)
                      THEN <<TRUE, "trailing_stop">>
                      ELSE <<FALSE, "hold">>
            ELSE <<FALSE, "hold">>
    IN  IF /\ ~by_price[1]
           /\ config.time_based.enabled
           /\ hours_left # None
           /\ Val(hours_left) < config.time_based.exit_hours
        THEN <<TRUE, "time_exit">>
        ELSE by_price

ExitDecision(trade, current_price) ==
    IF config.variant = "apple" THEN ExitApple(trade, current_price)
    ELSE IF config.variant = "banana" THEN ExitBanana(trade, current_price)
    ELSE ExitCherry(trade, current_price)

\* realized_pnl = current_price * buy_shares - buy_price * buy_shares
RealizedPnl_sell_value(trade, current_price) ==
    RatScale(current_price, trade.buy_shares)

RealizedPnl(trade, current_price) ==
    RatSub(RatScale(current_price, trade.buy_shares),
           RatScale(trade.buy_price, trade.buy_shares))

SellFields(trade, current_price, result, exit_reason) ==
    [sell_price |-> Some(current_price),
     sell_shares |-> Some(trade.buy_shares),
     sell_order_id |-> result.orderID,
     sell_timestamp |-> Some(now),
     realized_pnl |-> Some(RealizedPnl(trade, current_price)),
     status |-> "COMPLETED",
     exit_reason |-> IF config.variant = "apple" THEN None ELSE Some(exit_reason)]

\* execute_sell: result.get("success") or result.get("orderID")
SellAccepted_any_response(result) == TRUE

SellAccepted(result) == result.success \/ IsSome(result.orderID)

\* golden-cherry stores a new maximum before it decides.
TrackMaxPrice_any_price(ts, trade, current_price) ==
    IF config.variant = "cherry"
    THEN update_trade(ts, trade.id, [max_price |-> Some(current_price)]).table
    ELSE ts

TrackMaxPrice(ts, trade, current_price) ==
    IF config.variant = "cherry" /\ MaxPrice(trade, 0) < current_price
    THEN update_trade(ts, trade.id, [max_price |-> Some(current_price)]).table
    ELSE ts

execute_sell_without_try(trade) ==
    /\ UNCHANGED <<trades, skipped, orders>>
    /\ \E mid \in MidpointResults(trade.token_id) :
        last' = Call("execute_sell", trade.condition_id, IF mid = None THEN "raise" ELSE "False", "price_error", trade.id, mid, None)

\* Trader.execute_sell(trade)
execute_sell(trade) ==
    /\ skipped' = skipped
    /\ \E mid \in MidpointResults(trade.token_id) :
        IF mid = None
        THEN /\ UNCHANGED <<trades, orders>>
             /\ last' = Call("execute_sell", trade.condition_id, "False", "price_error",
                             trade.id, None, None)
        ELSE LET current_price == Val(mid)
                 tracked == TrackMaxPrice(trades, trade, current_price)
                 decision == ExitDecision(trade, current_price)
             IN  IF ~decision[1]
                 THEN /\ trades' = tracked
                      /\ orders' = orders
                      /\ last' = Call("execute_sell", trade.condition_id, "False",
                                      decision[2], trade.id, mid, None)
                 ELSE \E result \in OrderResults("SELL", trade.token_id) :
                        LET order == Order(trade.token_id, current_price,
                                           trade.buy_shares, "SELL")
                            sold == update_trade(tracked, trade.id,
                                        SellFields(trade, current_price, result,
                                                   decision[2]))
                        IN  /\ orders' = IF result.success \/ IsSome(result.orderID)
                                          THEN orders \cup {order} ELSE orders
                            /\ trades' = IF SellAccepted(result) THEN sold.table
                                          ELSE tracked
                            /\ last' = Call("execute_sell", trade.condition_id,
                                            IF SellAccepted(result) THEN "True" ELSE "False",
                                            IF SellAccepted(result) THEN decision[2]
                                            ELSE "order_rejected",
                                            trade.id, mid, Some(Placed(order, result)))

----------------------------------------------------------------------------
(* bot.py: PolymarketBot.run_cycle.  pc is the phase the cycle is in; one   *)
(* action per loop iteration.  An exception that leaves a phase ends the    *)
(* cycle (run_cycle has try/finally only).                                  *)

\* The phases in program order.  golden-banana saves snapshots first and
\* cleans old ones up last.
PhaseOrder_buys_first ==
    IF config.variant = "banana"
    THEN <<"snapshots", "scan", "buy", "sell", "cleanup">>
    ELSE <<"scan", "buy", "sell">>

PhaseOrder ==
    IF config.variant = "banana"
    THEN <<"snapshots", "sell", "scan", "buy", "cleanup">>
    ELSE <<"sell", "scan", "buy">>

NextPhase(p) ==
    LET i == CHOOSE k \in 1..Len(PhaseOrder) : PhaseOrder[k] = p
    IN  IF i = Len(PhaseOrder) THEN "idle" ELSE PhaseOrder[i + 1]

\* What the current invocation has done so far: the calls in order, the
\* markets whose trade it closed, the markets it opened a trade for.
FreshCycle == [trace |-> <<>>, closed |-> {}, bought |-> {}]

\* Entering a phase; the sell phase begins by reading the holdings.
Goto(q, ts) ==
    /\ pc' = q
    /\ holdings' = IF q = "sell" THEN get_holding_trades(ts) ELSE <<>>

\* Leaving a phase without a call: the bookkeeping of the invocation ends
\* with the invocation.
Leave(q) ==
    /\ last' = NoCall
    /\ cycle' = IF q = "idle" THEN FreshCycle ELSE cycle

Abort ==
    /\ pc' = "idle"
    /\ holdings' = <<>>
    /\ candidates' = <<>>

StartCycle ==
    /\ pc = "idle"
    /\ Goto(PhaseOrder[1], trades)
    /\ candidates' = <<>>
    /\ cycle' = FreshCycle
    /\ last' = NoCall
    /\ UNCHANGED <<config, trades, skipped, snapshots, orders, now>>

\* Phase 0 of golden-banana: scanner.save_market_snapshots()
SaveSnapshots ==
    /\ pc = "snapshots"
    /\ \E listing \in Listings(Markets) :
        /\ Len(save_market_snapshots(listing)) <= MaxSnapshots
        /\ snapshots' = save_market_snapshots(listing)
    /\ Goto(NextPhase(pc), trades)
    /\ Leave(NextPhase(pc))
    /\ UNCHANGED <<config, trades, skipped, orders, now, candidates>>

\* Phase 1, one iteration: trader.execute_sell(trade)
SellStep ==
    /\ pc = "sell"
    /\ holdings # <<>>
    /\ execute_sell(trades[Head(holdings)])
    /\ holdings' = Tail(holdings)
    /\ cycle' = [cycle EXCEPT
                    !.trace = Append(@, "execute_sell"),
                    !.closed = IF last'.ret = "True" THEN @ \cup {last'.cid} ELSE @]
    /\ UNCHANGED <<config, snapshots, now, pc, candidates>>

SellDone ==
    /\ pc = "sell"
    /\ holdings = <<>>
    /\ Goto(NextPhase(pc), trades)
    /\ Leave(NextPhase(pc))
    /\ UNCHANGED <<config, trades, skipped, snapshots, orders, now, candidates>>

\* Phase 2: scanner.scan_buy_candidates()
Scan ==
    /\ pc = "scan"
    /\ \E listing \in Listings(Markets) :
        LET found == scan_buy_candidates(listing)
        IN  IF found.error # ""
            THEN /\ Abort
                 /\ last' = Call("scan_buy_candidates", 0, "raise", found.error,
                                 0, None, None)
            ELSE /\ Goto(NextPhase(pc), trades)
                 /\ candidates' = found.candidates
                 /\ last' = Call("scan_buy_candidates", 0, "list", "", 0, None, None)
    /\ cycle' = [cycle EXCEPT !.trace = Append(@, "scan_buy_candidates")]
    /\ UNCHANGED <<config, trades, skipped, snapshots, orders, now>>

\* Phase 3, one iteration: the already-traded pre-check, then
\* trader.execute_buy(candidate)
BuyStep ==
    /\ pc = "buy"
    /\ candidates # <<>>
    /\ LET c == Head(candidates)
       IN  IF is_already_traded(trades, skipped, c.condition_id)
           THEN /\ UNCHANGED <<trades, skipped, orders, cycle, pc, holdings>>
                /\ candidates' = Tail(candidates)
                /\ last' = Call("is_already_traded", c.condition_id, "True", "", 0,
                                None, None)
           ELSE /\ execute_buy(c)
                /\ cycle' = [cycle EXCEPT
                                !.trace = Append(@, "execute_buy"),
                                !.bought = IF last'.ret = "id"
                                           THEN @ \cup {c.condition_id} ELSE @]
                /\ IF last'.ret = "raise"
                   THEN Abort
                   ELSE /\ candidates' = Tail(candidates)
                        /\ UNCHANGED <<pc, holdings>>
    /\ UNCHANGED <<config, snapshots, now>>

BuyDone ==
    /\ pc = "buy"
    /\ candidates = <<>>
    /\ Goto(NextPhase(pc), trades)
    /\ Leave(NextPhase(pc))
    /\ UNCHANGED <<config, trades, skipped, snapshots, orders, now, candidates>>

\* Phase 4 of golden-banana: repo.cleanup_old_snapshots(days=7)
Cleanup ==
    /\ pc = "cleanup"
    /\ snapshots' = cleanup_old_snapshots(snapshots, RetentionDays)
    /\ Goto(NextPhase(pc), trades)
    /\ Leave(NextPhase(pc))
    /\ UNCHANGED <<config, trades, skipped, orders, now, candidates>>

\* Time passes between cycles.  Only the time window reads the clock, so
\* the clock is advanced in the runs that have it switched on.
Tick ==
    /\ pc = "idle"
    /\ config.time_based.enabled
    /\ \E t \in Instants :
        /\ t > now
        /\ \A u \in Instants : u > now => t <= u
        /\ now' = t
    /\ last' = NoCall
    /\ UNCHANGED <<config, trades, skipped, snapshots, orders, pc, holdings,
                   candidates, cycle>>

\* Trader.execute_buy called on its own, outside a cycle, with a candidate
\* of the shape the variant's scanner produces.
DirectCandidates ==
    IF config.variant = "apple"
    THEN {Candidate(m, BuyThreshold, <<m, 0>>, None, None, None) : m \in Markets}
    ELSE IF config.variant = "banana"
    THEN {Candidate(m, BuyThreshold, <<m, 0>>, Some("momentum_disabled"), None, None) :
            m \in Markets}
    ELSE {Candidate(m, BuyThreshold, <<m, 0>>, Some("time_based"), Some(e),
                    Some(e - now)) :
            m \in Markets,
            e \in {d \in EndDates :
                     is_valid_time_entry(Some(d), config.time_based.entry_hours_max,
                                         config.time_based.entry_hours_min)[1]}}
         \cup
         {Candidate(m, BuyThreshold, <<m, 0>>, Some("probability_only"), None, None) :
            m \in Markets}

CallExecuteBuy ==
    /\ pc = "idle"
    /\ \E c \in DirectCandidates : execute_buy(c)
    /\ UNCHANGED <<config, snapshots, now, pc, holdings, candidates, cycle>>

\* TradeRepository.get_stats called on its own; the statistics returned are
\* carried in the order slot of last.
CallGetStats ==
    /\ pc = "idle"
    /\ last' = Call("get_stats", 0, "dict", "", 0, None, Some(get_stats(trades, skipped)))
    /\ UNCHANGED <<config, trades, skipped, snapshots, orders, now, pc, holdings,
                   candidates, cycle>>

\* TradeRepository.create_trade called on its own with the fields of a buy.
CallCreateTrade ==
    /\ pc = "idle"
    /\ \E c \in DirectCandidates :
        \E result \in {r \in OrderResults("BUY", c.token_id) : r.success} :
            LET made == create_trade(trades, BuyFields(c, BuyThreshold, result))
            IN  /\ trades' = made.table
                /\ last' = IF made.ok
                           THEN Call("create_trade", c.condition_id, "id", "",
                                     Len(made.table), None, None)
                           ELSE Call("create_trade", c.condition_id, "raise", made.error,
                                     0, None, None)
    /\ UNCHANGED <<config, skipped, snapshots, orders, now, pc, holdings, candidates,
                   cycle>>

Init ==
    /\ config \in Configs
    /\ trades = <<>>
    /\ skipped = <<>>
    /\ snapshots = <<>>
    /\ orders = {}
    /\ now = 0
    /\ pc = "idle"
    /\ holdings = <<>>
    /\ candidates = <<>>
    /\ cycle = FreshCycle
    /\ last = NoCall

Next ==
    \/ StartCycle
    \/ SaveSnapshots
    \/ SellStep
    \/ SellDone
    \/ Scan
    \/ BuyStep
    \/ BuyDone
    \/ Cleanup
    \/ Tick
    \/ CallExecuteBuy

Spec == Init /\ [][Next]_vars

\* golden-apple's cycles together with direct inserts into its trade store.
InitRepo ==
    /\ Init
    /\ config.variant = "apple"

NextRepo ==
    \/ StartCycle
    \/ SellStep
    \/ SellDone
    \/ Scan
    \/ BuyStep
    \/ BuyDone
    \/ CallExecuteBuy
    \/ CallCreateTrade
    \/ CallGetStats

SpecRepo == InitRepo /\ [][NextRepo]_vars

\* golden-apple invoked again and again by the loop of PolymarketBot.run: a
\* cycle is always started again and, once started, always runs on.
SpecLive ==
    /\ SpecRepo
    /\ WF_vars(StartCycle \/ SellStep \/ SellDone \/ Scan \/ BuyStep \/ BuyDone)

\* Trader.execute_sell called on its own, outside a cycle, on a trade that
\* get_holding_trades returns.
CallExecuteSell ==
    /\ pc = "idle"
    /\ \E id \in HoldingIds(trades) : execute_sell(trades[id])
    /\ UNCHANGED <<config, snapshots, now, pc, holdings, candidates, cycle>>

\* The runs the exit rules are examined in: no position limit, the default
\* amount, and for golden-banana also a take-profit set below the stop-loss.
SellConfigs ==
    {c \in Configs : c.max_positions = -1 /\ c.buy_amount_usdc = 10}
    \cup
    {[TradingConfig("banana", -1, 10, TRUE, FALSE, FALSE)
         EXCEPT !.take_profit_percent = 2 * BananaStopLoss]}

\* The snapshot history of market 1 a momentum run starts with: none, three
\* falling snapshots (no long momentum), six with a dead cross, six with a
\* golden cross.
SellSeries ==
    {<<>>,
     <<900, 900, 840>>,
     <<840, 840, 840, 900, 900, 840>>,
     <<900, 900, 900, 840, 840, 900>>}

SnapshotRows(cid, probabilities) ==
    [i \in 1..Len(probabilities) |->
        [condition_id |-> cid, probability |-> probabilities[i], timestamp |-> 0]]

InitSell ==
    /\ config \in SellConfigs
    /\ trades = <<>>
    /\ skipped = <<>>
    /\ snapshots \in IF config.momentum.enabled
                     THEN {SnapshotRows(1, ps) : ps \in SellSeries}
                     ELSE {<<>>}
    /\ orders = {}
    /\ now = 0
    /\ pc = "idle"
    /\ holdings = <<>>
    /\ candidates = <<>>
    /\ cycle = FreshCycle
    /\ last = NoCall

NextSell ==
    \/ CallExecuteBuy
    \/ CallExecuteSell
    \/ Tick

SpecSell == InitSell /\ [][NextSell]_vars

----------------------------------------------------------------------------
(* The signal functions called on their own: momentum.py of golden-banana  *)
(* over a stored snapshot series of market 1, and the time window of       *)
(* golden-cherry.  last holds the call, its arguments and its value.       *)

Result(op, args, value) == [op |-> op, args |-> args, value |-> value]

SnapshotProbabilities == {840, 900}

RECURSIVE SeriesOfLength(_)
SeriesOfLength(n) ==
    IF n = 0 THEN {<<>>}
    ELSE {Append(ps, p) : ps \in SeriesOfLength(n - 1), p \in SnapshotProbabilities}

AllSeries == UNION {SeriesOfLength(n) : n \in 0..MaxSeries}

\* (short_window, long_window): the defaults, and windows short enough for a
\* series to be longer than long_window.
SignalWindows == {<<ShortWindow, LongWindow>>, <<2, 5>>}

\* (golden_cross_threshold, dead_cross_threshold): the defaults, a smaller
\* mirrored pair, and a pair that is not mirrored.
SignalThresholds ==
    {<<GoldenCrossThreshold, DeadCrossThreshold>>, <<10, -10>>, <<10, DeadCrossThreshold>>}

\* (take_profit_percent, stop_loss_percent): the defaults, and a take-profit
\* below the stop-loss, under which both price rules can hold at once.
SignalLimits == {<<BananaTakeProfit, BananaStopLoss>>, <<2 * BananaStopLoss, BananaStopLoss>>}

SignalConfig(enabled, w, t, l) ==
    [TradingConfig("banana", -1, 10, enabled, FALSE, FALSE)
        EXCEPT !.momentum.short_window = w[1],
               !.momentum.long_window = w[2],
               !.momentum.golden_cross_threshold = t[1],
               !.momentum.dead_cross_threshold = t[2],
               !.take_profit_percent = l[1],
               !.stop_loss_percent = l[2]]

SignalConfigs ==
    {SignalConfig(TRUE, w, t, l) :
        w \in SignalWindows, t \in SignalThresholds, l \in SignalLimits}
    \cup
    {SignalConfig(FALSE, <<ShortWindow, LongWindow>>,
                  <<GoldenCrossThreshold, DeadCrossThreshold>>, l) : l \in SignalLimits}

\* The series as the callers read it: get_snapshots_for_condition(cid,
\* limit = long_window + 10)
StoredSeries ==
    get_snapshots_for_condition(snapshots, 1, config.momentum.long_window + 10)

\* Momentum readings handed to the cross detectors: none, those of the stored
\* series, and readings whose difference is exactly a threshold.
Momenta ==
    {None, get_short_momentum(StoredSeries, config.momentum),
     get_long_momentum(StoredSeries, config.momentum)}
    \cup {Some(Rat(x, 1)) : x \in {DeadCrossThreshold, 0, 10}}

\* Entry and live prices for the exit signal: no entry price, and around an
\* entry at 0.80 a loss over the stop-loss, exactly -10%, no move, exactly
\* +7%, and a gain over the take-profit.
SignalEntryPrices == {0, 800}
SignalCurrentPrices == {700, 720, 800, 856, 900}

\* Resolution times in hours from now: past, now, inside and at both ends of
\* the entry window, beyond it.
TimeEndDates == {-1, 0, 1, 3, 4, 5, 24, 25}

\* The functions keep no state, so a second call sees what the first saw: a
\* behaviour makes one call.
Ready == pc = "idle" /\ last = NoCall

inputs == <<config, trades, skipped, snapshots, orders, now, pc, holdings,
            candidates, cycle>>

CallCalculateMomentum ==
    /\ Ready
    /\ last' = Result("calculate_momentum", <<>>, calculate_momentum(StoredSeries))
    /\ UNCHANGED inputs

CallGetShortMomentum ==
    /\ Ready
    /\ last' = Result("get_short_momentum", <<>>,
                      get_short_momentum(StoredSeries, config.momentum))
    /\ UNCHANGED inputs

CallGetLongMomentum ==
    /\ Ready
    /\ last' = Result("get_long_momentum", <<>>,
                      get_long_momentum(StoredSeries, config.momentum))
    /\ UNCHANGED inputs

CallDetectCross ==
    /\ Ready
    /\ \E short_momentum \in Momenta, long_momentum \in Momenta :
        last' = Result("detect_cross", <<short_momentum, long_momentum>>,
                       <<detect_golden_cross(short_momentum, long_momentum,
                                             config.momentum),
                         detect_dead_cross(short_momentum, long_momentum,
                                           config.momentum)>>)
    /\ UNCHANGED inputs

CallGetEntrySignal ==
    /\ Ready
    /\ last' = Result("get_entry_signal", <<>>,
                      get_entry_signal(StoredSeries, config.momentum))
    /\ UNCHANGED inputs

CallGetExitSignal ==
    /\ Ready
    /\ \E entry_price \in SignalEntryPrices, current_price \in SignalCurrentPrices :
        last' = Result("get_exit_signal", <<entry_price, current_price>>,
                       get_exit_signal(StoredSeries, entry_price, current_price,
                                       config.take_profit_percent,
                                       config.stop_loss_percent, config.momentum))
    /\ UNCHANGED inputs

CallIsValidTimeEntry ==
    /\ Ready
    /\ \E end_date \in {None} \cup {Some(d) : d \in TimeEndDates} :
        last' = Result("is_valid_time_entry", <<end_date>>,
                       is_valid_time_entry(end_date, config.time_based.entry_hours_max,
                                           config.time_based.entry_hours_min))
    /\ UNCHANGED inputs

\* MarketScanner.scan_buy_candidates() of golden-banana on what the listing
\* returns: one payload of market 1, also one whose two outcomes have the
\* same price, alone or followed by a payload of market 2.
CallScanBuyCandidates ==
    /\ Ready
    /\ \E x \in PayloadsOf(1) \cup {Payload(Some(1), FALSE, HighLiquidity, <<SellThreshold, SellThreshold>>, Tokens(1), None)} :
        \E rest \in {<<>>} \cup {<<y>> : y \in PayloadsOf(2)} :
            last' = Result("scan_buy_candidates", <<x>> \o rest,
                           scan_buy_candidates(<<x>> \o rest))
    /\ UNCHANGED inputs

InitSignal ==
    /\ config \in SignalConfigs
    /\ trades = <<>>
    /\ skipped = <<>>
    /\ snapshots \in {SnapshotRows(1, ps) : ps \in AllSeries}
    /\ orders = {}
    /\ now = 0
    /\ pc = "idle"
    /\ holdings = <<>>
    /\ candidates = <<>>
    /\ cycle = FreshCycle
    /\ last = NoCall

NextSignal ==
    \/ CallCalculateMomentum
    \/ CallGetShortMomentum
    \/ CallGetLongMomentum
    \/ CallDetectCross
    \/ CallGetEntrySignal
    \/ CallGetExitSignal
    \/ CallIsValidTimeEntry
    \/ CallScanBuyCandidates

SpecSignal == InitSignal /\ [][NextSignal]_vars

----------------------------------------------------------------------------
(* Two invocations of golden-apple's run_cycle against one store.  Each    *)
(* has its own session: trades, skipped and orders are shared, while pc,   *)
(* holdings, candidates, cycle and last are per invocation (functions of   *)
(* the invocation).  Between two store or exchange calls of one invocation *)
(* the other may run.                                                      *)

Invocations == {1, 2}

\* The bookkeeping of one invocation: the calls in order, the candidates the
\* scan gave it, the markets it had a BUY order accepted for and the markets
\* it opened a trade for.
RaceCycle(scanned) ==
    [trace |-> <<>>, closed |-> {}, bought |-> {}, placed |-> {},
     scanned |-> scanned]

\* run_cycle up to the buy loop: the session, the sell phase, the scan.  The
\* runs followed are those whose sell phase finds no holding.
RaceStart(i) ==
    /\ pc[i] = "idle"
    /\ last[i] = NoCall
    /\ get_holding_trades(trades) = <<>>
    /\ \E listing \in Listings(Markets) :
        LET found == scan_buy_candidates(listing)
        IN  /\ found.error = ""
            /\ found.candidates # <<>>
            /\ candidates' = [candidates EXCEPT ![i] = found.candidates]
            /\ cycle' = [cycle EXCEPT ![i] = RaceCycle(found.candidates)]
    /\ pc' = [pc EXCEPT ![i] = "buy"]
    /\ UNCHANGED <<config, trades, skipped, snapshots, orders, now, holdings, last>>

\* The head of the buy loop: repo.is_already_traded(candidate) -> continue
RacePreCheck(i) ==
    /\ pc[i] = "buy"
    /\ candidates[i] # <<>>
    /\ LET c == Head(candidates[i])
       IN  IF is_already_traded(trades, skipped, c.condition_id)
           THEN /\ candidates' = [candidates EXCEPT ![i] = Tail(@)]
                /\ last' = [last EXCEPT ![i] = Call("is_already_traded", c.condition_id,
                                                    "True", "", 0, None, None)]
                /\ UNCHANGED pc
           ELSE /\ pc' = [pc EXCEPT ![i] = "execute_buy"]
                /\ last' = [last EXCEPT ![i] = Call("is_already_traded", c.condition_id,
                                                    "False", "", 0, None, None)]
                /\ UNCHANGED candidates
    /\ cycle' = [cycle EXCEPT ![i].trace = Append(@, "is_already_traded")]
    /\ UNCHANGED <<config, trades, skipped, snapshots, orders, now, holdings>>

\* execute_buy from its own already-traded check to the response of
\* place_limit_order.
RaceOrder(i) ==
    /\ pc[i] = "execute_buy"
    /\ LET c == Head(candidates[i])
           cid == c.condition_id
           Return(reason, price, order) ==
               /\ pc' = [pc EXCEPT ![i] = "buy"]
               /\ candidates' = [candidates EXCEPT ![i] = Tail(@)]
               /\ last' = [last EXCEPT ![i] = Call("execute_buy", cid, "None", reason,
                                                   0, price, order)]
               /\ UNCHANGED <<orders, cycle>>
       IN  IF is_already_traded(trades, skipped, cid)
           THEN Return("already_traded", None, None) /\ UNCHANGED skipped
           ELSE IF /\ config.max_positions > 0
                   /\ get_position_count(trades) >= config.max_positions
                THEN Return("max_positions", None, None) /\ UNCHANGED skipped
           ELSE \E mid \in MidpointResults(c.token_id) :
               IF mid = None THEN Return("price_error", None, None) /\ UNCHANGED skipped
               ELSE IF RapidJump(Val(mid))
                    THEN /\ Return("rapid_jump", mid, None)
                         /\ skipped' = mark_as_skipped(skipped, cid, "rapid_jump").table
               ELSE IF \/ Val(mid) < config.buy_threshold
                       \/ BelowMinOrderSize(BuyShares(Val(mid)))
                    THEN /\ Return(IF Val(mid) < config.buy_threshold
                                   THEN "below_buy" ELSE "min_size", mid, None)
                         /\ UNCHANGED skipped
               ELSE \E result \in OrderResults("BUY", c.token_id) :
                   LET order == Order(c.token_id, Val(mid), BuyShares(Val(mid)), "BUY")
                   IN  /\ UNCHANGED skipped
                       /\ IF BuyAccepted(result)
                          THEN /\ orders' = orders \cup {order}
                               /\ pc' = [pc EXCEPT ![i] = "create_trade"]
                               /\ last' = [last EXCEPT ![i] =
                                              Call("place_limit_order", cid, "dict", "",
                                                   0, mid, Some(Placed(order, result)))]
                               /\ cycle' = [cycle EXCEPT ![i].placed = @ \cup {cid}]
                               /\ UNCHANGED candidates
                          ELSE Return("order_rejected", mid, Some(Placed(order, result)))
    /\ UNCHANGED <<config, trades, snapshots, now, holdings>>

\* execute_buy after an accepted order: repo.create_trade(...).  The
\* IntegrityError of a second row for the market leaves execute_buy and
\* run_cycle (try/finally only), so the invocation ends there.
RaceInsert(i) ==
    /\ pc[i] = "create_trade"
    /\ LET c == Head(candidates[i])
           placed == Val(last[i].order)
           made == create_trade(trades, BuyFields(c, Val(last[i].price), placed.result))
       IN  /\ trades' = made.table
           /\ IF made.ok
              THEN /\ pc' = [pc EXCEPT ![i] = "buy"]
                   /\ candidates' = [candidates EXCEPT ![i] = Tail(@)]
                   /\ last' = [last EXCEPT ![i] =
                                  Call("execute_buy", c.condition_id, "id", "bought",
                                       Len(made.table), last[i].price, last[i].order)]
                   /\ cycle' = [cycle EXCEPT ![i].trace = Append(@, "execute_buy"),
                                             ![i].bought = @ \cup {c.condition_id}]
              ELSE /\ pc' = [pc EXCEPT ![i] = "idle"]
                   /\ candidates' = [candidates EXCEPT ![i] = <<>>]
                   /\ last' = [last EXCEPT ![i] =
                                  Call("execute_buy", c.condition_id, "raise", made.error,
                                       0, last[i].price, last[i].order)]
                   /\ cycle' = [cycle EXCEPT ![i].trace = Append(@, "execute_buy")]
    /\ UNCHANGED <<config, skipped, snapshots, orders, now, holdings>>

\* The buy loop is over: the summary, then finally: session.close()
RaceDone(i) ==
    /\ pc[i] = "buy"
    /\ candidates[i] = <<>>
    /\ pc' = [pc EXCEPT ![i] = "idle"]
    /\ UNCHANGED <<config, trades, skipped, snapshots, orders, now, holdings,
                   candidates, cycle, last>>

InitRace ==
    /\ config \in {c \in Configs : c.variant = "apple"}
    /\ trades = <<>>
    /\ skipped = <<>>
    /\ snapshots = <<>>
    /\ orders = {}
    /\ now = 0
    /\ pc = [i \in Invocations |-> "idle"]
    /\ holdings = [i \in Invocations |-> <<>>]
    /\ candidates = [i \in Invocations |-> <<>>]
    /\ cycle = [i \in Invocations |-> RaceCycle(<<>>)]
    /\ last = [i \in Invocations |-> NoCall]

NextRace ==
    \E i \in Invocations :
        \/ RaceStart(i)
        \/ RacePreCheck(i)
        \/ RaceOrder(i)
        \/ RaceInsert(i)
        \/ RaceDone(i)

SpecRace == InitRace /\ [][NextRace]_vars

\* The process is stopped in the middle of a cycle (killed, or the host goes
\* down): nothing more of that invocation runs.  What the store and the
\* exchange have already taken stays.
RaceInterrupt(i) ==
    /\ pc[i] # "idle"
    /\ pc' = [pc EXCEPT ![i] = "idle"]
    /\ candidates' = [candidates EXCEPT ![i] = <<>>]
    /\ last' = [last EXCEPT ![i] = Call("run_cycle", last[i].cid, "interrupted", pc[i],
                                        0, last[i].price, last[i].order)]
    /\ UNCHANGED <<config, trades, skipped, snapshots, orders, now, holdings, cycle>>

\* Invocations one at a time, each of which may be interrupted: an
\* invocation begins only when no other is running.
SpecReinvoke ==
    InitRace /\ [][\E i \in Invocations :
                      \/ RaceStart(i) /\ \A j \in Invocations : pc[j] = "idle"
                      \/ RacePreCheck(i)
                      \/ RaceOrder(i)
                      \/ RaceInsert(i)
                      \/ RaceDone(i)
                      \/ RaceInterrupt(i)]_vars

----------------------------------------------------------------------------
(* utils/retry.py: rate_limit_handler.  One call through the wrapper; last *)
(* holds max_retries and the outcomes of the attempts made so far, and the *)
(* way the call ended once it has.                                         *)

\* max_retries: the exchange and listing clients pass 3.
RetryBudgets == 0..3

\* What one attempt of the wrapped function can do: return, or raise
\* HTTPError (status 0 stands for an error without a response; a 429 can
\* carry a Retry-After header in seconds or as an HTTP date),
\* ConnectionError, Timeout or some other exception.
Outcomes ==
    {[kind |-> "ok", status |-> 200, retry_after |-> None]}
    \cup
    {[kind |-> "HTTPError", status |-> s, retry_after |-> None] :
        s \in {0, 400, 404, 429, 500, 501, 502, 503, 504, 505}}
    \cup
    {[kind |-> "HTTPError", status |-> 429, retry_after |-> Some(h)] :
        h \in {"seconds", "date"}}
    \cup
    {[kind |-> k, status |-> 0, retry_after |-> None] :
        k \in {"ConnectionError", "Timeout", "KeyError"}}

\* for attempt in range(max_retries)
WithinBudget_unbounded(max_retries, attempts) == TRUE

WithinBudget(max_retries, attempts) == attempts < max_retries

\* The except clauses: what the wrapper does with a failed attempt,
\* <<"retry", error>> after sleeping or <<"raise", error>>.  int() of a
\* Retry-After that is not a number raises ValueError inside the handler.
Handle(outcome) ==
    IF outcome.kind = "HTTPError"
    THEN IF outcome.status = 429
         THEN IF outcome.retry_after = Some("date")
              THEN <<"raise", "ValueError">>
              ELSE <<"retry", "HTTPError">>
         ELSE IF outcome.status \in {500, 502, 503, 504}
              THEN <<"retry", "HTTPError">>
              ELSE <<"raise", "HTTPError">>
    ELSE IF outcome.kind \in {"ConnectionError", "Timeout"}
         THEN <<"retry", outcome.kind>>
    ELSE <<"raise", outcome.kind>>

place_limit_order_reraising(outcome) ==
    [raised |-> outcome.kind # "ok", error |-> ""]

\* ClobClientWrapper.place_limit_order, the decorated body: one submission to
\* the exchange client; whatever the client raises is caught inside and a
\* result with success = False and the error is returned, so the wrapper
\* sees a return (error "" stands for the response of the exchange).
place_limit_order(outcome) ==
    [raised |-> FALSE, error |-> IF outcome.kind = "ok" THEN "" ELSE outcome.kind]

\* A call of a decorated function begins: any function with any budget, or
\* place_limit_order, decorated with max_retries = 3.
CallWrapper ==
    /\ pc = "idle"
    /\ last = NoCall
    /\ \E n \in RetryBudgets, op \in {"rate_limit_handler", "place_limit_order"} :
        /\ op = "place_limit_order" => n = 3
        /\ last' = Result(op, [max_retries |-> n, calls |-> <<>>], None)
    /\ pc' = "wrapper"
    /\ UNCHANGED <<config, trades, skipped, snapshots, orders, now, holdings,
                   candidates, cycle>>

\* One pass of the loop, or the statements after it when the loop is over.
Attempt ==
    /\ pc = "wrapper"
    /\ LET n == last.args.max_retries
           calls == last.args.calls
           End(ret, error) ==
               /\ pc' = "idle"
               /\ last' = [last EXCEPT !.value = Some([ret |-> ret, error |-> error])]
       IN  IF WithinBudget(n, Len(calls))
           THEN \E outcome \in Outcomes :
               LET made == [last EXCEPT !.args.calls = Append(@, outcome)]
                   body == IF last.op = "place_limit_order"
                           THEN place_limit_order(outcome)
                           ELSE [raised |-> outcome.kind # "ok", error |-> ""]
               IN  IF ~body.raised
                   THEN /\ pc' = "idle"
                        /\ last' = [made EXCEPT !.value = Some([ret |-> "return",
                                                                error |-> body.error])]
                   ELSE IF Handle(outcome)[1] = "retry"
                        THEN /\ pc' = pc
                             /\ last' = made
                        ELSE /\ pc' = "idle"
                             /\ last' = [made EXCEPT !.value =
                                            Some([ret |-> "raise",
                                                  error |-> Handle(outcome)[2]])]
           ELSE End("raise", IF calls = <<>> THEN "Exception"
                             ELSE Handle(calls[Len(calls)])[2])
    /\ UNCHANGED <<config, trades, skipped, snapshots, orders, now, holdings,
                   candidates, cycle>>

SpecRetry == InitRepo /\ [][CallWrapper \/ Attempt]_vars

----------------------------------------------------------------------------
(* The repository of golden-banana called on its own over a store left by  *)
(* earlier cycles: snapshots of both markets taken at several instants, a  *)
(* market skipped earlier, two open trades.  last holds the call, its     *)
(* arguments (with the table as it was before a mutation) and its value.   *)

\* TradeRepository.get_snapshots_for_condition(condition_id, limit)
CallGetSnapshotsFor ==
    /\ Ready
    /\ \E cid \in Markets, limit \in 0..(MaxStored + 1) :
        last' = Result("get_snapshots_for_condition", [cid |-> cid, limit |-> limit],
                       get_snapshots_for_condition(snapshots, cid, limit))
    /\ UNCHANGED inputs

\* TradeRepository.cleanup_old_snapshots(days): the rows the DELETE matched
\* are gone and their number is returned.
CallCleanupOldSnapshots ==
    /\ Ready
    /\ \E days \in {0, 1, RetentionDays} :
        /\ snapshots' = cleanup_old_snapshots(snapshots, days)
        /\ last' = Result("cleanup_old_snapshots",
                          [days |-> days, before |-> snapshots],
                          Cardinality({i \in 1..Len(snapshots) :
                                         snapshots[i].timestamp < now - days * 24}))
    /\ UNCHANGED <<config, trades, skipped, orders, now, pc, holdings, candidates,
                   cycle>>

\* MarketScanner.save_market_snapshots(): the number saved is returned.
CallSaveMarketSnapshots ==
    /\ Ready
    /\ \E listing \in Listings(Markets) :
        /\ snapshots' = save_market_snapshots(listing)
        /\ last' = Result("save_market_snapshots",
                          [listing |-> listing, before |-> snapshots],
                          Len(save_market_snapshots(listing)) - Len(snapshots))
    /\ UNCHANGED <<config, trades, skipped, orders, now, pc, holdings, candidates,
                   cycle>>

\* TradeRepository.mark_as_skipped(condition_id, reason)
CallMarkAsSkipped ==
    /\ Ready
    /\ \E cid \in Markets :
        LET marked == mark_as_skipped(skipped, cid, "rapid_jump")
        IN  /\ skipped' = marked.table
            /\ last' = Result("mark_as_skipped", [cid |-> cid, before |-> skipped],
                              IF marked.ok THEN "SkippedMarket" ELSE marked.error)
    /\ UNCHANGED <<config, trades, snapshots, orders, now, pc, holdings, candidates,
                   cycle>>

\* TradeRepository.update_trade(trade_id, **kwargs) with the keyword sets of
\* execute_sell, a key that is no column, and updated_at itself.
CallUpdateTrade ==
    /\ Ready
    /\ \E trade_id \in 1..(Len(trades) + 1) :
        \E kwargs \in {[status |-> "COMPLETED"],
                       [status |-> "PENDING_SELL", sell_price |-> Some(SellThreshold)],
                       [max_price |-> Some(SellThreshold)],
                       [no_such_column |-> 1],
                       [updated_at |-> 1, exit_reason |-> Some("stop_loss")]} :
            LET updated == update_trade(trades, trade_id, kwargs)
            IN  /\ trades' = updated.table
                /\ last' = Result("update_trade",
                                  [trade_id |-> trade_id, kwargs |-> kwargs,
                                   before |-> trades],
                                  IF updated.ok THEN "Trade" ELSE updated.error)
    /\ UNCHANGED <<config, skipped, snapshots, orders, now, pc, holdings, candidates,
                   cycle>>

\* Two days past the retention period; the stored snapshots were taken at
\* the start, exactly RetentionDays ago, exactly one day ago and just now,
\* committed in any order.
InitStore ==
    /\ config = TradingConfig("banana", -1, 10, TRUE, FALSE, FALSE)
    /\ now = RetentionDays * 24 + 2
    /\ trades = [id \in 1..2 |->
                    [Trade(id, BuyFields(Candidate(id + 1, BuyThreshold, <<id + 1, 0>>,
                                                   Some("golden_cross"), None, None),
                                         BuyThreshold,
                                         [success |-> TRUE,
                                          orderID |-> Some(OrderId("BUY", <<id + 1, 0>>))]))
                        EXCEPT !.updated_at = 0]]
    /\ skipped = <<SkippedMarket(1, "rapid_jump")>>
    /\ snapshots \in UNION {[1..n -> [condition_id : Markets, probability : {SellThreshold},
                                      timestamp : {0, now - RetentionDays * 24,
                                                   now - 24, now}]] :
                               n \in 0..MaxStored}
    /\ orders = {}
    /\ pc = "idle"
    /\ holdings = <<>>
    /\ candidates = <<>>
    /\ cycle = FreshCycle
    /\ last = NoCall

SpecStore ==
    InitStore /\ [][\/ CallGetSnapshotsFor
                    \/ CallCleanupOldSnapshots
                    \/ CallSaveMarketSnapshots
                    \/ CallMarkAsSkipped
                    \/ CallUpdateTrade]_vars

----------------------------------------------------------------------------
(* Properties *)

\* C1: in every reachable state each market has at most one Trade row in a
\* non-terminal status, and an insert for a market that already has such a row
\* fails and leaves the table as it was.
C1_OneOpenTradePerMarket ==
    /\ [](\A m \in Markets :
            Cardinality({i \in Ids(trades) :
                            /\ trades[i].condition_id = m
                            /\ trades[i].status \in NonTerminal}) <= 1)
    /\ [][(/\ last'.op = "create_trade"
           /\ \E i \in Ids(trades) :
                /\ trades[i].condition_id = last'.cid
                /\ trades[i].status \in NonTerminal)
          => (last'.ret = "raise" /\ trades' = trades)]_vars

C1_DuplicateInsertRefused ==
    /\ last.op = "create_trade"
    /\ last.ret = "raise"
    /\ \E i \in Ids(trades) :
        /\ trades[i].condition_id = last.cid
        /\ trades[i].status \in NonTerminal

\* C2: once a market has a Trade row, in any status, an execute_buy for that
\* market returns none, submits no order and leaves the trades as they were.
C2_NoSecondBuy ==
    [][(/\ last'.op = "execute_buy"
        /\ \E i \in Ids(trades) : trades[i].condition_id = last'.cid)
       => /\ last'.ret = "None"
          /\ last'.order = None
          /\ trades' = trades
          /\ orders' = orders]_vars

C2_CompletedMarketRefused ==
    /\ last.op = "execute_buy"
    /\ last.ret = "None"
    /\ last.price = None
    /\ \E i \in Ids(trades) :
        /\ trades[i].condition_id = last.cid
        /\ trades[i].status = "COMPLETED"
    /\ Cardinality({i \in Ids(trades) : trades[i].condition_id = last.cid}) = 1

\* C3: an execute_buy that returns none leaves the Trade rows as they were, and
\* a step adds a Trade row only if it is an execute_buy whose order the
\* exchange accepted; it adds one row and touches no other.
C3_NoRowWithoutAcceptance ==
    [][/\ (last'.op = "execute_buy" /\ last'.ret = "None") => trades' = trades
       /\ Len(trades') > Len(trades)
            => /\ last'.op = "execute_buy"
               /\ last'.order # None
               /\ \/ Val(last'.order).result.success
                  \/ IsSome(Val(last'.order).result.orderID)
               /\ Len(trades') = Len(trades) + 1
               /\ SubSeq(trades', 1, Len(trades)) = trades]_vars

C3_RejectedBuyLeavesNoRow ==
    /\ last.op = "execute_buy"
    /\ last.ret = "None"
    /\ last.order # None
    /\ ~Val(last.order).result.success
    /\ Val(last.order).result.orderID = None
    /\ \A i \in Ids(trades) : trades[i].condition_id # last.cid

\* C4: a Trade row is never deleted and its status never moves backwards along
\* PENDING_BUY, HOLDING, PENDING_SELL, COMPLETED; a row appears only through an
\* execute_buy with an accepted order, becomes COMPLETED only through an
\* execute_sell of it with an accepted order, and once COMPLETED keeps its
\* status, sell fields and realized P&L.
C4_StatusForwardOnly ==
    [][LET Rank(st) == CASE st = "PENDING_BUY" -> 1
                         [] st = "HOLDING" -> 2
                         [] st = "PENDING_SELL" -> 3
                         [] st = "COMPLETED" -> 4
                         [] OTHER -> 0
           Took(o) == o # None /\ (Val(o).result.success \/ IsSome(Val(o).result.orderID))
       IN  /\ Len(trades') >= Len(trades)
           /\ \A i \in Ids(trades) :
                /\ trades'[i].id = trades[i].id
                /\ trades'[i].condition_id = trades[i].condition_id
                /\ Rank(trades[i].status) > 0
                /\ Rank(trades'[i].status) >= Rank(trades[i].status)
                /\ trades[i].status = "COMPLETED"
                    => /\ trades'[i].status = "COMPLETED"
                       /\ trades'[i].sell_price = trades[i].sell_price
                       /\ trades'[i].sell_shares = trades[i].sell_shares
                       /\ trades'[i].sell_order_id = trades[i].sell_order_id
                       /\ trades'[i].sell_timestamp = trades[i].sell_timestamp
                       /\ trades'[i].realized_pnl = trades[i].realized_pnl
                /\ (trades[i].status # "COMPLETED" /\ trades'[i].status = "COMPLETED")
                    => /\ last'.op = "execute_sell"
                       /\ last'.ret = "True"
                       /\ last'.id = i
                       /\ Took(last'.order)
           /\ \A i \in Ids(trades') \ Ids(trades) :
                /\ last'.op = "execute_buy"
                /\ Took(last'.order)
                /\ trades'[i].status \in {"PENDING_BUY", "HOLDING"}]_vars

C4_CompletedTradeSeesLaterSell ==
    /\ last.op = "execute_sell"
    /\ last.ret = "True"
    /\ cycle.closed = {last.cid}
    /\ \E i \in Ids(trades) :
        /\ trades[i].status = "COMPLETED"
        /\ trades[i].condition_id # last.cid

C6_SellsBeforeBuys ==
    /\ \A i, j \in 1..Len(cycle.trace) :
        (i < j /\ cycle.trace[j] = "execute_sell") => cycle.trace[i] = "execute_sell"
    /\ cycle.closed \cap cycle.bought = {}

C6_ClosedMarketOfferedAgain ==
    /\ pc = "buy"
    /\ last.op = "is_already_traded"
    /\ last.cid \in cycle.closed
    /\ cycle.trace[1] = "execute_sell"

\* C7: after an execute_sell whose order the exchange did not accept, the call
\* has returned false and the trade is in HOLDING with no sell price, sell
\* order id, sell timestamp or realized P&L, and get_holding_trades returns it.
C7_RejectedSellKeepsHolding ==
    (/\ last.op = "execute_sell"
     /\ last.order # None
     /\ ~Val(last.order).result.success
     /\ Val(last.order).result.orderID = None)
    => /\ last.ret = "False"
       /\ trades[last.id].status = "HOLDING"
       /\ trades[last.id].sell_price = None
       /\ trades[last.id].sell_order_id = None
       /\ trades[last.id].sell_timestamp = None
       /\ trades[last.id].realized_pnl = None
       /\ \E k \in 1..Len(get_holding_trades(trades)) :
            get_holding_trades(trades)[k] = last.id

C7_SellRejected ==
    /\ last.op = "execute_sell"
    /\ last.order # None
    /\ ~Val(last.order).result.success
    /\ Val(last.order).result.orderID = None
    /\ trades[last.id].status = "HOLDING"

\* C8: an execute_buy that reads a live price above sell_threshold returns none,
\* submits no order and records the market as skipped with reason rapid_jump;
\* one that reads a price below buy_threshold returns none, submits no order
\* and records no skipped market.
C8_PriceMovedOut ==
    [][(last'.op = "execute_buy" /\ last'.price # None)
       => /\ Val(last'.price) > config.sell_threshold
            => /\ last'.ret = "None"
               /\ last'.order = None
               /\ trades' = trades
               /\ orders' = orders
               /\ skipped' = Append(skipped, [condition_id |-> last'.cid,
                                              reason |-> "rapid_jump"])
          /\ Val(last'.price) < config.buy_threshold
            => /\ last'.ret = "None"
               /\ last'.order = None
               /\ trades' = trades
               /\ orders' = orders
               /\ skipped' = skipped]_vars

C8_RapidJumpSkipped ==
    /\ last.op = "execute_buy"
    /\ last.price # None
    /\ Val(last.price) > config.sell_threshold
    /\ \E j \in 1..Len(skipped) :
        skipped[j] = [condition_id |-> last.cid, reason |-> "rapid_jump"]

C10_MaxPositions ==
    /\ config.max_positions > 0
        => Cardinality({i \in Ids(trades) : trades[i].status = "HOLDING"})
               <= config.max_positions
    /\ (last.op = "execute_buy" /\ last.reason = "max_positions")
        => /\ config.max_positions > 0
           /\ Cardinality({i \in Ids(trades) : trades[i].status = "HOLDING"})
                  = config.max_positions

C10_LimitReached ==
    /\ config.max_positions > 0
    /\ last.op = "execute_buy"
    /\ last.ret = "None"
    /\ last.price = None
    /\ \A i \in Ids(trades) : trades[i].condition_id # last.cid
    /\ \A j \in 1..Len(skipped) : skipped[j].condition_id # last.cid
    /\ Cardinality({i \in Ids(trades) : trades[i].status = "HOLDING"})
           = config.max_positions

\* C11: an execute_buy that reads a live price at which buy_amount_usdc / price
\* is below MIN_ORDER_SIZE returns none, submits no order and leaves the trades
\* as they were; an order it does submit is for buy_amount_usdc / price shares;
\* and every Trade row has buy_shares >= MIN_ORDER_SIZE and buy_shares *
\* buy_price = buy_amount.
C11_MinOrderSize ==
    /\ [](\A i \in Ids(trades) :
            /\ trades[i].buy_shares.n >= MIN_ORDER_SIZE * trades[i].buy_shares.d
            /\ trades[i].buy_shares.n * trades[i].buy_price
                   = trades[i].buy_amount * 1000 * trades[i].buy_shares.d)
    /\ [][(last'.op = "execute_buy" /\ last'.price # None /\ Val(last'.price) > 0)
          => /\ config.buy_amount_usdc * 1000 < MIN_ORDER_SIZE * Val(last'.price)
                => /\ last'.ret = "None"
                   /\ last'.order = None
                   /\ trades' = trades
                   /\ orders' = orders
             /\ last'.order # None
                => /\ Val(last'.order).order.size.n * Val(last'.price)
                        = config.buy_amount_usdc * 1000 * Val(last'.order).order.size.d
                   /\ Val(last'.order).order.side = "BUY"]_vars

C11_SmallOrderRefused ==
    /\ last.op = "execute_buy"
    /\ last.reason = "min_size"
    /\ last.price # None
    /\ config.buy_threshold <= Val(last.price)
    /\ Val(last.price) < config.sell_threshold
    /\ config.buy_amount_usdc * 1000 < MIN_ORDER_SIZE * Val(last.price)
    /\ \A i \in Ids(trades) : trades[i].condition_id # last.cid

\* C12: an execute_sell that finds no exit condition returns false, submits no
\* order and changes nothing in the store, except that in golden-cherry it may
\* have raised the trade's max_price to the live price (with the row's
\* updated_at); status, sell fields, realized P&L and every other row are as
\* they were.
C12_HoldMutatesNothing ==
    [][(last'.op = "execute_sell" /\ last'.reason = "hold")
       => LET old == trades[last'.id]
              new == trades'[last'.id]
          IN  /\ last'.ret = "False"
              /\ last'.order = None
              /\ orders' = orders
              /\ skipped' = skipped
              /\ snapshots' = snapshots
              /\ Len(trades') = Len(trades)
              /\ \A i \in Ids(trades) \ {last'.id} : trades'[i] = trades[i]
              /\ \A k \in DOMAIN old \ {"max_price", "updated_at"} : new[k] = old[k]
              /\ \/ new = old
                 \/ /\ config.variant = "cherry"
                    /\ old.max_price # None
                    /\ Val(last'.price) > Val(old.max_price)
                    /\ new.max_price = last'.price]_vars

C12_HoldRaisesMaxPrice ==
    /\ last.op = "execute_sell"
    /\ last.reason = "hold"
    /\ trades[last.id].status = "HOLDING"
    /\ trades[last.id].max_price = last.price
    /\ Val(last.price) > trades[last.id].buy_price

\* C13: get_exit_signal returns (exit, stop_loss) whenever pnl_percent <=
\* stop_loss, also when pnl_percent >= take_profit holds as well; (exit,
\* take_profit) when only the take-profit rule holds; (exit, dead_cross) only
\* when neither price rule holds, momentum is enabled, both momenta are
\* available and short - long <= dead_cross_threshold; (hold) otherwise; with
\* pnl_percent = (current - entry) / entry, and 0 for an entry price of 0.
C13_ExitPriority ==
    last.op = "get_exit_signal"
    => LET entry == last.args[1]
           current == last.args[2]
           AtStop == IF entry = 0 THEN 0 <= config.stop_loss_percent
                     ELSE (current - entry) * 1000 <= config.stop_loss_percent * entry
           AtProfit == IF entry = 0 THEN 0 >= config.take_profit_percent
                       ELSE (current - entry) * 1000 >= config.take_profit_percent * entry
           short == get_short_momentum(StoredSeries, config.momentum)
           long == get_long_momentum(StoredSeries, config.momentum)
           Crossed == /\ config.momentum.enabled
                      /\ short # None
                      /\ long # None
                      /\ (Val(short).n * Val(long).d - Val(long).n * Val(short).d)
                            <= config.momentum.dead_cross_threshold
                                * Val(short).d * Val(long).d
       IN  /\ AtStop => last.value = <<TRUE, "stop_loss">>
           /\ (~AtStop /\ AtProfit) => last.value = <<TRUE, "take_profit">>
           /\ (~AtStop /\ ~AtProfit /\ Crossed) => last.value = <<TRUE, "dead_cross">>
           /\ (~AtStop /\ ~AtProfit /\ ~Crossed) => last.value = <<FALSE, "hold">>

C13_BothPriceRulesHold ==
    /\ last.op = "get_exit_signal"
    /\ last.args[1] > 0
    /\ (last.args[2] - last.args[1]) * 1000 <= config.stop_loss_percent * last.args[1]
    /\ (last.args[2] - last.args[1]) * 1000 >= config.take_profit_percent * last.args[1]
    /\ last.value = <<TRUE, "stop_loss">>

C15_CherryExitRules ==
    (/\ config.variant = "cherry"
     /\ last.op = "execute_sell"
     /\ last.price # None)
    => LET trade == trades[last.id]
           current == Val(last.price)
           AtStop == (current - trade.buy_price) * 1000
                        <= config.stop_loss_percent * trade.buy_price
           AtProfit == (current - trade.buy_price) * 1000
                          >= config.take_profit_percent * trade.buy_price
           Trailing == /\ config.trailing_stop.enabled
                       /\ current * 1000
                            < Val(trade.max_price) * (1000 - config.trailing_stop.percent)
           TimeUp == /\ config.time_based.enabled
                     /\ trade.market_end_date # None
                     /\ Val(trade.market_end_date) - now < config.time_based.exit_hours
           expected == IF AtStop THEN "stop_loss"
                       ELSE IF AtProfit THEN "take_profit"
                       ELSE IF Trailing THEN "trailing_stop"
                       ELSE IF TimeUp THEN "time_exit"
                       ELSE "hold"
           Took == \/ Val(last.order).result.success
                   \/ IsSome(Val(last.order).result.orderID)
       IN  /\ last.order # None <=> (AtStop \/ AtProfit \/ Trailing \/ TimeUp)
           /\ IF last.order # None /\ Took
              THEN /\ last.ret = "True"
                   /\ trade.status = "COMPLETED"
                   /\ trade.exit_reason = Some(expected)
              ELSE /\ last.ret = "False"
                   /\ trade.status = "HOLDING"
                   /\ trade.exit_reason = None

C15_TimeExitAfterTrailingHeld ==
    /\ config.variant = "cherry"
    /\ config.trailing_stop.enabled
    /\ last.op = "execute_sell"
    /\ last.ret = "True"
    /\ trades[last.id].exit_reason = Some("time_exit")
    /\ Val(trades[last.id].max_price) > Val(last.price)
    /\ Val(last.price) > trades[last.id].buy_price

\* C16: in golden-cherry a trade starts with max_price = buy_price; an
\* execute_sell that reads live price p leaves the trade's max_price at the
\* larger of its old value and p, and no other step changes a max_price: so the
\* stored maximum never decreases and is the maximum of the buy price and the
\* live prices read so far.  A sale is recorded as trailing_stop only if
\* p < max_price * (1 - trailing percent), and never in a call whose live price
\* is a new maximum.
C16_MaxPriceSeen ==
    [][config.variant = "cherry"
       => /\ \A i \in Ids(trades') \ Ids(trades) :
                trades'[i].max_price = Some(trades'[i].buy_price)
          /\ \A i \in Ids(trades) :
                LET old == Val(trades[i].max_price)
                    new == Val(trades'[i].max_price)
                    read == /\ last'.op = "execute_sell"
                            /\ last'.id = i
                            /\ last'.price # None
                IN  /\ new >= old
                    /\ new >= trades'[i].buy_price
                    /\ IF read
                       THEN /\ new = IF Val(last'.price) > old
                                     THEN Val(last'.price) ELSE old
                            /\ trades'[i].exit_reason = Some("trailing_stop")
                                => /\ Val(last'.price) * 1000
                                        < new * (1000 - config.trailing_stop.percent)
                                   /\ Val(last'.price) <= old
                       ELSE new = old]_vars

C16_DrawdownFromNewMaximum ==
    /\ config.variant = "cherry"
    /\ last.op = "execute_sell"
    /\ last.ret = "True"
    /\ trades[last.id].exit_reason = Some("trailing_stop")
    /\ Val(trades[last.id].max_price) > trades[last.id].buy_price
    /\ Val(last.price) < trades[last.id].buy_price

\* C17: get_entry_signal returns (enter, momentum_disabled) when momentum is
\* disabled; else (no, insufficient_short_data) when the short momentum is
\* unavailable; else, when the long momentum is unavailable, (enter,
\* short_momentum_positive) if the short momentum is > 0 and (no,
\* short_momentum_negative) if not; else (enter, golden_cross) if short - long
\* >= golden_cross_threshold and (no, no_signal) if not.
C17_EntrySignal ==
    last.op = "get_entry_signal"
    => LET short == get_short_momentum(StoredSeries, config.momentum)
           long == get_long_momentum(StoredSeries, config.momentum)
           Golden == (Val(short).n * Val(long).d - Val(long).n * Val(short).d)
                        >= config.momentum.golden_cross_threshold
                            * Val(short).d * Val(long).d
       IN  last.value =
             IF ~config.momentum.enabled THEN <<TRUE, "momentum_disabled">>
             ELSE IF short = None THEN <<FALSE, "insufficient_short_data">>
             ELSE IF long = None
                  THEN IF Val(short).n > 0 THEN <<TRUE, "short_momentum_positive">>
                       ELSE <<FALSE, "short_momentum_negative">>
             ELSE IF Golden THEN <<TRUE, "golden_cross">>
             ELSE <<FALSE, "no_signal">>

C17_FlatShortMomentumStaysOut ==
    /\ last.op = "get_entry_signal"
    /\ config.momentum.enabled
    /\ get_short_momentum(StoredSeries, config.momentum) = Some(Rat(0, 1))
    /\ get_long_momentum(StoredSeries, config.momentum) = None
    /\ last.value = <<FALSE, "short_momentum_negative">>

\* C18: for momenta short and long, detect_golden_cross holds iff both are
\* available and short - long >= golden_cross_threshold, detect_dead_cross
\* holds iff both are available and short - long <= dead_cross_threshold, and
\* with golden_cross_threshold > 0 > dead_cross_threshold the two never hold
\* for the same pair.
C18_CrossDetection ==
    last.op = "detect_cross"
    => LET short == last.args[1]
           long == last.args[2]
           golden == last.value[1]
           dead == last.value[2]
           diff == Val(short).n * Val(long).d - Val(long).n * Val(short).d
           unit == Val(short).d * Val(long).d
       IN  IF short = None \/ long = None
           THEN ~golden /\ ~dead
           ELSE /\ golden <=> diff >= config.momentum.golden_cross_threshold * unit
                /\ dead <=> diff <= config.momentum.dead_cross_threshold * unit
                /\ (/\ config.momentum.golden_cross_threshold > 0
                    /\ config.momentum.dead_cross_threshold < 0)
                     => ~(golden /\ dead)

C18_DeadCrossAtThreshold ==
    /\ last.op = "detect_cross"
    /\ last.args[1] # None
    /\ last.args[2] # None
    /\ RatSub(Val(last.args[1]), Val(last.args[2]))
            = Rat(config.momentum.dead_cross_threshold, 1)
    /\ last.value = <<FALSE, TRUE>>

C20_Momentum ==
    LET n == Len(snapshots)
        w == config.momentum.short_window
        Is(value, rise, count) ==
            /\ value # None
            /\ Val(value).d > 0
            /\ Val(value).n * count = rise * Val(value).d
    IN  /\ last.op = "calculate_momentum"
            => IF n < 2 THEN last.value = None
               ELSE Is(last.value,
                       snapshots[n].probability - snapshots[1].probability, n)
        /\ last.op = "get_short_momentum"
            => IF n < w \/ w < 2 THEN last.value = None
               ELSE Is(last.value,
                       snapshots[n].probability - snapshots[n - w + 1].probability, w)

C20_ShortMomentumOfLastWindow ==
    /\ last.op = "get_short_momentum"
    /\ Len(snapshots) > config.momentum.short_window
    /\ snapshots[1].probability = snapshots[Len(snapshots)].probability
    /\ last.value # None
    /\ Val(last.value).n < 0

\* C21: get_long_momentum returns the momentum of the last long_window
\* snapshots when at least long_window exist; with fewer it returns the
\* momentum of all snapshots if at least 2 * short_window exist, and none
\* otherwise.
C21_LongMomentum ==
    last.op = "get_long_momentum"
    => LET n == Len(snapshots)
           w == config.momentum.long_window
           Is(value, rise, count) ==
               /\ value # None
               /\ Val(value).d > 0
               /\ Val(value).n * count = rise * Val(value).d
       IN  IF n >= w
           THEN Is(last.value,
                   snapshots[n].probability - snapshots[n - w + 1].probability, w)
           ELSE IF n >= 2 * config.momentum.short_window
                THEN Is(last.value,
                        snapshots[n].probability - snapshots[1].probability, n)
                ELSE last.value = None

C21_LongWindowDropsOldest ==
    /\ last.op = "get_long_momentum"
    /\ Len(snapshots) > config.momentum.long_window
    /\ snapshots[1].probability = snapshots[Len(snapshots)].probability
    /\ last.value # None
    /\ Val(last.value).n # 0

\* C22: an error raised while one candidate of the buy phase is processed
\* (here the refused insert of a second row for a market) does not stop the
\* phase: an invocation that has ended has taken every candidate its scan
\* gave it through the head of the buy loop, and the rows of the other
\* markets are as they were.
C22_ErrorDoesNotStopPhase ==
    \A i \in Invocations :
        pc[i] = "idle"
        => Len(SelectSeq(cycle[i].trace, LAMBDA op : op = "is_already_traded"))
               = Len(cycle[i].scanned)

\* C30: for two concurrent invocations the already-traded check and the
\* insert are one atomic step: at most one of them has a BUY order accepted
\* for a market, the market has exactly one Trade row once the inserts are
\* done, and no invocation fails.
C30_CheckThenInsertAtomic ==
    /\ \A m \in Markets :
        /\ Cardinality({i \in Invocations : m \in cycle[i].placed}) <= 1
        /\ (/\ \E i \in Invocations : m \in cycle[i].placed
            /\ \A i \in Invocations : pc[i] # "create_trade")
           => Cardinality({id \in Ids(trades) : trades[id].condition_id = m}) = 1
    /\ \A i \in Invocations : last[i].ret # "raise"

\* C23: a call through the retry wrapper makes at most max_retries attempts
\* and none after a success; it returns when an attempt succeeds, and when
\* every attempt fails with an error the wrapper retries it ends after
\* exactly max_retries attempts by raising the error of the last attempt.
C23_RetryBudget ==
    last.op = "rate_limit_handler"
    => LET n == last.args.max_retries
           calls == last.args.calls
           done == last.value # None
       IN  /\ Len(calls) <= n
           /\ \A k \in 1..(Len(calls) - 1) : calls[k].kind # "ok"
           /\ pc = "wrapper" <=> ~done
           /\ done
              => /\ Val(last.value).ret = "return"
                    <=> (calls # <<>> /\ calls[Len(calls)].kind = "ok")
                 /\ (\A k \in 1..Len(calls) :
                        calls[k].kind # "ok" /\ Handle(calls[k])[1] = "retry")
                    => /\ Len(calls) = n
                       /\ Val(last.value).ret = "raise"
                       /\ Val(last.value).error =
                             IF n = 0 THEN "Exception" ELSE calls[n].kind

C23_BudgetSpentLastErrorRaised ==
    /\ last.op = "rate_limit_handler"
    /\ last.args.max_retries = 3
    /\ Len(last.args.calls) = 3
    /\ last.args.calls[1].kind = "HTTPError"
    /\ last.args.calls[3].kind = "Timeout"
    /\ last.value = Some([ret |-> "raise", error |-> "Timeout"])

\* C24: a failed attempt is followed by another pass of the loop iff it
\* failed with HTTP 429, an HTTP 5xx status, a connection error or a
\* timeout (the last attempt the budget allows aside); any other failure
\* ends the call at that attempt.
C24_RetriesExactlyTransientErrors ==
    last.op = "rate_limit_handler"
    => \A k \in 1..Len(last.args.calls) :
          LET failure == last.args.calls[k]
              transient == \/ failure.kind = "HTTPError" /\ failure.status = 429
                           \/ failure.kind = "HTTPError" /\ failure.status \in 500..599
                           \/ failure.kind \in {"ConnectionError", "Timeout"}
              retried == \/ k < Len(last.args.calls)
                         \/ pc = "wrapper"
                         \/ /\ k = last.args.max_retries
                            /\ Val(last.value).ret = "raise"
                            /\ Handle(failure)[1] = "retry"
          IN  failure.kind # "ok" => (retried <=> transient)

\* C25: get_snapshots_for_condition(market, limit) returns rows of that
\* market only, min(limit, number stored) of them, oldest first, and they
\* are the most recent: from any instant on, it returns as many of the
\* market's rows as are stored, up to limit.
C25_MostRecentOldestFirst ==
    last.op = "get_snapshots_for_condition"
    => LET got == last.value
           limit == last.args.limit
           stored == {i \in 1..Len(snapshots) :
                        snapshots[i].condition_id = last.args.cid}
           Least(a, b) == IF a < b THEN a ELSE b
       IN  /\ \A k \in 1..Len(got) : got[k] \in {snapshots[i] : i \in stored}
           /\ Len(got) = Least(limit, Cardinality(stored))
           /\ \A k \in 1..(Len(got) - 1) : got[k].timestamp <= got[k + 1].timestamp
           /\ \A i \in stored :
                 Cardinality({k \in 1..Len(got) :
                                got[k].timestamp >= snapshots[i].timestamp})
                     = Least(limit,
                             Cardinality({j \in stored : snapshots[j].timestamp
                                                           >= snapshots[i].timestamp}))

C25_OldestOfThreeLeftOut ==
    /\ last.op = "get_snapshots_for_condition"
    /\ last.args.limit = 2
    /\ Len(snapshots) = 3
    /\ \A i \in 1..3 : snapshots[i].condition_id = last.args.cid
    /\ snapshots[1].timestamp = now
    /\ snapshots[2].timestamp = 0
    /\ snapshots[3].timestamp = now - 24
    /\ last.value = <<snapshots[3], snapshots[1]>>

\* C26: cleanup_old_snapshots(d) deletes exactly the snapshots whose
\* timestamp is before now - d days and returns how many they were; a
\* snapshot exactly d days old or newer stays, in place; no Trade row and no
\* SkippedMarket row changes.
C26_CleanupDeletesOlderOnly ==
    [][last'.op = "cleanup_old_snapshots"
       => LET cutoff == now - last'.args.days * 24
              old == {i \in 1..Len(snapshots) : snapshots[i].timestamp < cutoff}
          IN  /\ last'.value = Cardinality(old)
              /\ Len(snapshots') = Len(snapshots) - Cardinality(old)
              /\ \A i \in 1..Len(snapshots) \ old :
                    snapshots'[i - Cardinality({j \in old : j < i})] = snapshots[i]
              /\ trades' = trades
              /\ skipped' = skipped]_vars

C26_BoundaryRowKept ==
    /\ last.op = "cleanup_old_snapshots"
    /\ last.args.days = RetentionDays
    /\ Len(last.args.before) = 3
    /\ last.args.before[1].timestamp = 0
    /\ last.args.before[2].timestamp = now - RetentionDays * 24
    /\ last.value = 1
    /\ snapshots = Tail(last.args.before)
    /\ trades # <<>>
    /\ skipped # <<>>

\* C27 as claimed: a call of save_market_snapshots persists exactly one
\* snapshot for every listed market that is not excluded (and has an id and
\* a leading outcome), whatever its liquidity.
C27_EveryListedMarketSnapshotted ==
    last.op = "save_market_snapshots"
    => \A k \in 1..Len(last.args.listing) :
          LET market == last.args.listing[k]
          IN  (/\ market.conditionId # None
               /\ ~market.excluded
               /\ Len(market.outcomePrices) >= 2)
              => Cardinality({i \in (Len(last.args.before) + 1)..Len(snapshots) :
                                snapshots[i].condition_id = Val(market.conditionId)}) = 1

\* C27 as the code has it: the snapshots are taken first in the cycle, and
\* a call persists exactly one snapshot, stamped now with the probability of
\* the leading outcome, for every listed market that has the minimum
\* liquidity, an id and a leading outcome and is not excluded, and none for
\* any other market; the stored rows stay and the number saved is returned.
C27_SnapshotPerTradableMarket ==
    /\ config.variant = "banana"
       => /\ PhaseOrder[1] = "snapshots"
          /\ \A k \in 2..Len(PhaseOrder) : PhaseOrder[k] # "snapshots"
    /\ last.op = "save_market_snapshots"
       => LET listing == last.args.listing
              before == last.args.before
              added == (Len(before) + 1)..Len(snapshots)
              Tracked(market) == /\ market.conditionId # None
                                 /\ ~market.excluded
                                 /\ Len(market.outcomePrices) >= 2
                                 /\ market.liquidity >= config.min_liquidity
          IN  /\ SubSeq(snapshots, 1, Len(before)) = before
              /\ last.value = Cardinality(added)
              /\ \A m \in Markets :
                    Cardinality({i \in added : snapshots[i].condition_id = m})
                        = Cardinality({k \in 1..Len(listing) :
                                         /\ Tracked(listing[k])
                                         /\ listing[k].conditionId = Some(m)})
              /\ \A i \in added :
                    /\ snapshots[i].timestamp = now
                    /\ \E k \in 1..Len(listing) :
                          /\ listing[k].conditionId = Some(snapshots[i].condition_id)
                          /\ snapshots[i].probability \in
                                {listing[k].outcomePrices[1], listing[k].outcomePrices[2]}
                          /\ snapshots[i].probability >= listing[k].outcomePrices[1]
                          /\ snapshots[i].probability >= listing[k].outcomePrices[2]

C27_LowLiquidityMarketNotSnapshotted ==
    /\ last.op = "save_market_snapshots"
    /\ Len(last.args.listing) = 2
    /\ last.args.listing[1].conditionId = Some(1)
    /\ ~last.args.listing[1].excluded
    /\ last.args.listing[1].liquidity < config.min_liquidity
    /\ Len(last.args.listing[1].outcomePrices) = 2
    /\ last.value = 1
    /\ snapshots[Len(snapshots)].condition_id = 2
    /\ snapshots[Len(snapshots)].probability = BuyThreshold

\* C28: mark_as_skipped for a market is idempotent: it succeeds whether or
\* not the market is already skipped, and afterwards the market has exactly
\* one SkippedMarket row.
C28_MarkAsSkippedIdempotent ==
    last.op = "mark_as_skipped"
    => /\ last.value = "SkippedMarket"
       /\ Cardinality({i \in 1..Len(skipped) :
                         skipped[i].condition_id = last.args.cid}) = 1

\* C29: update_trade on an id that no row has fails with the not-found
\* error and leaves the table as it was; on an existing id it sets the named
\* columns and updated_at of that row and changes nothing else.
C29_UpdateTrade ==
    last.op = "update_trade"
    => LET trade_id == last.args.trade_id
           kwargs == last.args.kwargs
           before == last.args.before
       IN  IF trade_id \notin 1..Len(before)
           THEN /\ last.value = "ValueError"
                /\ trades = before
           ELSE /\ last.value = "Trade"
                /\ Len(trades) = Len(before)
                /\ \A j \in 1..Len(before) : j # trade_id => trades[j] = before[j]
                /\ DOMAIN trades[trade_id] = DOMAIN before[trade_id]
                /\ \A col \in DOMAIN before[trade_id] :
                      trades[trade_id][col] =
                          IF col = "updated_at" THEN now
                          ELSE IF col \in DOMAIN kwargs THEN kwargs[col]
                          ELSE before[trade_id][col]

C29_OneRowUpdated ==
    /\ last.op = "update_trade"
    /\ last.args.trade_id = 1
    /\ last.args.kwargs = [status |-> "COMPLETED"]
    /\ last.args.before[1].status = "HOLDING"
    /\ last.args.before[1].updated_at < now
    /\ trades[1].status = "COMPLETED"
    /\ trades[1].updated_at = now
    /\ trades[2] = last.args.before[2]

\* C31: of two invocations run one after the other, the first possibly
\* interrupted at any point, the second never has a BUY order accepted for
\* a market the first already had one accepted for.
C31_ReinvocationPlacesNoSecondOrder ==
    \A m \in Markets : Cardinality({i \in Invocations : m \in cycle[i].placed}) <= 1

C33_PriceFailureSkipsItem ==
    [][last'.reason = "price_error"
       => /\ last'.op \in {"execute_sell", "execute_buy"}
          /\ last'.ret = (IF last'.op = "execute_sell" THEN "False" ELSE "None")
          /\ last'.order = None
          /\ trades' = trades
          /\ skipped' = skipped
          /\ orders' = orders
          /\ pc' = pc
          /\ (pc = "sell" => holdings' = Tail(holdings))
          /\ (pc = "buy" => candidates' = Tail(candidates))]_vars

C33_PriceFailedItemsRemain ==
    /\ last.reason = "price_error"
    /\ \/ pc = "sell" /\ holdings # <<>>
       \/ pc = "buy" /\ candidates # <<>>

\* C34: scan_buy_candidates of golden-banana returns a candidate for a listed
\* market exactly when the market has an identifier, is not excluded, has
\* liquidity >= min_liquidity, its higher-priced outcome (the first on a tie)
\* has a token id and a price in the buy range, and the entry signal holds;
\* the candidate carries that outcome's token id and the entry reason, which
\* is momentum_disabled whenever momentum is disabled.
C34_ScanBuyCandidates ==
    last.op = "scan_buy_candidates" =>
        LET listing == last.args
            found == last.value.candidates
            Pick(market) ==
                IF market.outcomePrices[1] >= market.outcomePrices[2] THEN 1 ELSE 2
            Signal(market) ==
                IF config.momentum.enabled
                THEN get_entry_signal(
                         get_snapshots_for_condition(snapshots, Val(market.conditionId),
                                                     config.momentum.long_window + 10),
                         config.momentum)
                ELSE <<TRUE, "momentum_disabled">>
            Qualifies(market) ==
                /\ market.conditionId # None
                /\ ~market.excluded
                /\ market.liquidity >= config.min_liquidity
                /\ Len(market.outcomePrices) >= 2
                /\ Len(market.clobTokenIds) >= Pick(market)
                /\ config.buy_threshold <= market.outcomePrices[Pick(market)]
                /\ market.outcomePrices[Pick(market)] <= config.sell_threshold
                /\ Signal(market)[1]
            Expected(market) ==
                Candidate(Val(market.conditionId), market.outcomePrices[Pick(market)],
                          market.clobTokenIds[Pick(market)], Some(Signal(market)[2]),
                          None, None)
            wanted == SelectSeq(listing, Qualifies)
        IN  /\ last.value.error = ""
            /\ Len(found) = Len(wanted)
            /\ \A j \in 1..Len(found) : found[j] = Expected(wanted[j])
            /\ ~config.momentum.enabled
                   => \A j \in 1..Len(found) : found[j].entry_reason = Some("momentum_disabled")

C34_TieScannedWithoutMomentum ==
    /\ last.op = "scan_buy_candidates"
    /\ ~config.momentum.enabled
    /\ last.args[1].outcomePrices = <<SellThreshold, SellThreshold>>
    /\ Len(last.args) = 2
    /\ Len(last.value.candidates) = 2
    /\ last.value.candidates[1].token_id = <<1, 0>>

\* C37: in golden-cherry with the time filter off, execute_buy on a
\* probability-only candidate (no end date, no hours until resolution) ends
\* normally: it returns None or the id of the new trade and never raises.
C37_ProbabilityOnlyBuyCompletes ==
    (/\ config.variant = "cherry"
     /\ ~config.time_based.enabled
     /\ last.op = "execute_buy")
        => last.ret \in {"None", "id"}

\* C35: with invocations one at a time, no market has both a Trade row and
\* a SkippedMarket record, a market has at most one SkippedMarket record,
\* and records once written stay: a skipped market is never bought and a
\* bought market is never skipped afterwards.
C35_TradedOrSkippedNotBoth ==
    /\ [](\A i \in Ids(trades), j \in 1..Len(skipped) :
            trades[i].condition_id # skipped[j].condition_id)
    /\ [](\A i, j \in 1..Len(skipped) :
            skipped[i].condition_id = skipped[j].condition_id => i = j)
    /\ [][/\ Len(skipped') >= Len(skipped)
          /\ Len(trades') >= Len(trades)
          /\ \A j \in 1..Len(skipped) : skipped'[j] = skipped[j]
          /\ \A i \in Ids(trades) : trades'[i].condition_id = trades[i].condition_id]_vars

C35_SkippedMarketOfferedAgain ==
    /\ last.op \in {"is_already_traded", "execute_buy"}
    /\ \E j \in 1..Len(skipped) : skipped[j].condition_id = last.cid
    /\ last.reason # "rapid_jump"
    /\ trades # <<>>

\* C36: a call of place_limit_order, the only order call of execute_buy and
\* execute_sell, submits one order: a submission that fails is returned as a
\* result that is not accepted and the retry wrapper never submits again.
C36_OneSubmissionPerCall ==
    last.op = "place_limit_order"
    => LET calls == last.args.calls
       IN  /\ Len(calls) <= 1
           /\ last.value # None
              => /\ Len(calls) = 1
                 /\ Val(last.value).ret = "return"
                 /\ Val(last.value).error =
                       (IF calls[1].kind = "ok" THEN "" ELSE calls[1].kind)

C36_FailedSubmissionReturned ==
    /\ last.op = "place_limit_order"
    /\ Len(last.args.calls) = 1
    /\ last.args.calls[1].kind = "Timeout"
    /\ last.value = Some([ret |-> "return", error |-> "Timeout"])
    /\ pc = "idle"

\* C38: the buy_price recorded by execute_buy is the limit price of the BUY
\* order it submitted, and the sell_price recorded by execute_sell is the
\* limit price of the SELL order it submitted (the price on the 0.01 tick).
C38_RecordedPriceIsSubmittedPrice ==
    /\ (last.op = "execute_buy" /\ last.ret = "id")
          => trades[last.id].buy_price = Val(last.order).order.price
    /\ (last.op = "execute_sell" /\ last.ret = "True")
          => trades[last.id].sell_price = Some(Val(last.order).order.price)

\* C39 as stated: get_stats reports total_trades = holding + completed, the
\* number of SkippedMarket records, and total_pnl equal to the sum of
\* realized_pnl over the COMPLETED trades.
C39_StatsExactSum ==
    last.op = "get_stats" =>
        LET stats == Val(last.order)
            done == {i \in Ids(trades) : trades[i].status = "COMPLETED"}
            RECURSIVE Total(_)
            Total(S) ==
                IF S = {} THEN Rat(0, 1)
                ELSE LET i == CHOOSE x \in S : TRUE
                         p == Val(trades[i].realized_pnl)
                         t == Total(S \ {i})
                     IN  Rat(t.n * p.d + p.n * t.d, t.d * p.d)
        IN  /\ stats.total_trades = stats.holding + stats.completed
            /\ stats.skipped = Len(skipped)
            /\ stats.total_pnl = Total(done)

\* C39 amended: the counts are as stated, total_pnl is the sum of
\* realized_pnl over the COMPLETED trades rounded to four decimals (a
\* multiple of 0.0001 at most 0.00005 away from the sum), and the call
\* changes no row.
C39_StatsRoundedSum ==
    /\ [](last.op = "get_stats" =>
            LET stats == Val(last.order)
                done == {i \in Ids(trades) : trades[i].status = "COMPLETED"}
                RECURSIVE Total(_)
                Total(S) ==
                    IF S = {} THEN Rat(0, 1)
                    ELSE LET i == CHOOSE x \in S : TRUE
                             p == Val(trades[i].realized_pnl)
                             t == Total(S \ {i})
                         IN  Rat(t.n * p.d + p.n * t.d, t.d * p.d)
                off == RatSub(stats.total_pnl, Total(done))
            IN  /\ stats.total_trades = stats.holding + stats.completed
                /\ stats.holding = Cardinality(HoldingIds(trades))
                /\ stats.completed = Cardinality(done)
                /\ stats.skipped = Len(skipped)
                /\ 10 % stats.total_pnl.d = 0
                /\ 20 * Abs(off.n) <= off.d)
    /\ [][last'.op = "get_stats"
          => /\ trades' = trades
             /\ skipped' = skipped
             /\ snapshots' = snapshots
             /\ orders' = orders]_vars

C39_StatsWithRoundedPnl ==
    /\ last.op = "get_stats"
    /\ Val(last.order).completed = 1
    /\ Val(last.order).holding = 1
    /\ \E i \in Ids(trades) :
          /\ trades[i].status = "COMPLETED"
          /\ Val(last.order).total_pnl # Val(trades[i].realized_pnl)

\* C40: with buy_threshold > 0, execute_buy never divides by a zero price (a
\* midpoint of 0 is rejected as below buy_threshold before the shares are
\* computed), and every Trade row has
\* buy_threshold <= buy_price <= sell_threshold.
C40_BuyPriceInRange ==
    config.buy_threshold > 0
    => /\ last.op = "execute_buy" => last.reason # "ZeroDivisionError"
       /\ (last.op = "execute_buy" /\ last.price = Some(0))
             => /\ last.ret = "None"
                /\ last.reason = "below_buy"
                /\ last.order = None
       /\ \A i \in Ids(trades) :
             /\ config.buy_threshold <= trades[i].buy_price
             /\ trades[i].buy_price <= config.sell_threshold

C40_ZeroMidpointRejected ==
    /\ config.buy_threshold > 0
    /\ last.op = "execute_buy"
    /\ last.price = Some(0)
    /\ \E i \in Ids(trades) : trades[i].buy_price = config.buy_threshold

====
